---- MODULE Spec2Model ----
(***************************************************************************)
(* A model of NuclideRemoteEventbus (src/unnamed/part_002): the client     *)
(* side RPC multiplexer, its named event subscriptions and its registry of *)
(* stream/object emitters, all fed by one socket.                          *)
(*                                                                         *)
(* One JavaScript turn (a public method call, one socket 'message', one    *)
(* timer callback, one promise reaction) is one action.  Promise reactions *)
(* are microtasks: socket messages and timers are macrotasks and run only  *)
(* when no reaction is runnable.                                           *)
(***************************************************************************)
EXTENDS Integers, Sequences, FiniteSets, TLC

(* ------------------------------------------------------------------ *)
(* Bounds of the model                                                 *)
(* ------------------------------------------------------------------ *)

\* Largest correlation id the model allocates.
MaxRequestId == 2

\* Most registerEventListener calls of one run.
MaxSubscriptions == 2

\* The value JavaScript calls undefined.
Undefined == "undefined"

\* Services and timeouts a caller passes to callServiceFrameworkMethod.
CallInputs == {[serviceName |-> "svcA", timeout |-> 1000],
               [serviceName |-> "svcB", timeout |-> 5000]}

\* Payloads of an RPC response: the error field and the result field.
ErrorValues == {Undefined, "", "E1"}
ResultValues == {"r1", "r2"}

\* Most consumeStream/consumeEventEmitter calls of one run.
MaxEmitters == 1

\* Most stream messages the socket delivers in one run.
MaxStreamMessages == 2

\* Most subscribeToChannel calls and most direct callMethod calls of one run.
MaxChannelSubscriptions == 2
MaxMethodCalls == 2

\* Most listeners added to the RemoteFile and most other operations on it
\* (rename, create, write, delete, native watcher events) in one run.
MaxFileListeners == 2
MaxFileOperations == 2

\* Most commands (toggle, reveal, focus) given to the FileTreeController in
\* one run.
MaxTreeCommands == 5

\* Most read() calls on the RemoteFile in one run.
MaxFileReads == 1

\* Most 'will-throw-watch-error' callbacks registered in one run.
MaxWatchErrorListeners == 1

\* The emitter ids of consumeStream/consumeEventEmitter and of stream messages.
EmitterIds == {0, 1}

\* The event types of stream messages.
StreamEventTypes == {"data", "error", "end"}

\* The serviceOptions argument of registerEventListener.
ServiceOptions == {"opts"}

\* The (name, callback, options) triples registerEventListener is called with.
Registrations ==
  {[localEventName |-> <<"w", "/", "c">>, cb |-> "cb1", serviceOptions |-> "opts"],
   [localEventName |-> <<"w", "/", "c">>, cb |-> "cb2", serviceOptions |-> "opts"],
   [localEventName |-> <<"w", "/", "d">>, cb |-> "cb1", serviceOptions |-> "opts"]}

\* socket.id, the connection's identity.
SocketId == "socketId"

VARIABLES
  socket,          \* this.socket: "open", or "null" after close()
  rpcRequestId,    \* this._rpcRequestId
  sent,            \* what was handed to socket.send, in order
  rpcEmitter,      \* listeners of this._serviceFrameworkRpcEmitter, in order
  timers,          \* armed setTimeout callbacks, one per call id
  promises,        \* the promise of each callServiceFrameworkMethod call, by id
  allocated,       \* every id handed out, in order, with its allocator
  removed,         \* per id: what removed its pending entry, in order
  eventEmitter,    \* listeners of this.serviceFrameworkEventEmitter, in order
  subscriptions,   \* one record per registerEventListener call, in order
  eventEmitters,   \* this._eventEmitters: emitter id -> emitter object
  emitterObjs,     \* the EventEmitter objects consumeEventEmitter created
  xhrRequests,     \* what was handed to socket.xhrRequest, in order
  inbound,         \* how many stream messages the socket has delivered
  eventbus,        \* listeners of this.eventbus, in order
  channelSubs,     \* one record per subscribeToChannel call, in order
  methodCalls,     \* one record per direct callMethod call, in order
  remoteFile,      \* one RemoteFile object: its fields and its requests in flight
  fileContents,    \* the text the file of the RemoteFile holds on the server
  fileTree,        \* one FileTreeController: its fields, its panel, the active file
  last             \* the turn that ran last

rpcVars == <<socket, rpcRequestId, sent, rpcEmitter, timers, promises,
             allocated, removed>>

evVars == <<eventEmitter, subscriptions>>

chVars == <<eventbus, channelSubs, methodCalls>>

emVars == <<eventEmitters, emitterObjs, xhrRequests, inbound, chVars>>

rfVars == <<remoteFile, fileContents>>

ftVars == <<fileTree>>

vars == <<rpcVars, evVars, emVars, rfVars, ftVars, last>>

(* ------------------------------------------------------------------ *)
(* JavaScript helpers                                                  *)
(* ------------------------------------------------------------------ *)

\* ToBoolean of the values a response's error field takes.
Truthy(v) == v /= Undefined /\ v /= ""

Digits == <<"0", "1", "2", "3", "4", "5", "6", "7", "8", "9">>

\* Number.prototype.toString for a non-negative integer: its decimal digits.
RECURSIVE NumberToString(_)
NumberToString(n) ==
  IF n < 10 THEN <<Digits[n + 1]>>
  ELSE NumberToString(n \div 10) \o <<Digits[(n % 10) + 1]>>

\* Promise resolve/reject: the first call settles, later calls do nothing.
SettlePromise(ps, id, state, value) ==
  IF id \in DOMAIN ps /\ ps[id].state = "pending"
  THEN [ps EXCEPT ![id].state = state, ![id].value = value]
  ELSE ps

(* ------------------------------------------------------------------ *)
(* EventEmitter operations on the RPC emitter                          *)
(* ------------------------------------------------------------------ *)

\* emitter.listeners(key)
ListenersOf(em, key) == SelectSeq(em, LAMBDA l : l.key = key)

\* emitter.removeAllListeners(key)
RemoveAllListeners(em, key) == SelectSeq(em, LAMBDA l : l.key /= key)

\* A listener registered with on(): it stays on the emitter after it ran.
TakeOnceListenersKeep(em, key) == em

\* emitter.once(key, ...): emit(key) takes the listener off before it runs.
TakeOnceListeners(em, key) == SelectSeq(em, LAMBDA l : l.key /= key)

\* The once-listener of a call (part_002:171-173) run with (error, result).
RpcListenerBody(ps, call, error, result) ==
  IF Truthy(error)
  THEN SettlePromise(ps, call, "rejected", [kind |-> "remote", error |-> error])
  ELSE SettlePromise(ps, call, "resolved", result)

\* Run the listeners ls, in order, with (error, result).
RECURSIVE RunRpcListeners(_, _, _, _)
RunRpcListeners(ps, ls, error, result) ==
  IF ls = <<>> THEN ps
  ELSE RunRpcListeners(RpcListenerBody(ps, Head(ls).call, error, result),
                       Tail(ls), error, result)

\* Append cause to the removal log of every id in ids.
LogRemoval(rm, ids, cause) ==
  [i \in DOMAIN rm |-> IF i \in ids THEN Append(rm[i], cause) ELSE rm[i]]

(* ------------------------------------------------------------------ *)
(* Promise reactions                                                   *)
(* ------------------------------------------------------------------ *)

\* A reaction run as soon as it is attached, whatever the promise's state.
ReactionRunnableEarly(i) == subscriptions[i].reaction = "registered"

\* The reaction dispose() attached with subscribePromise.then(f) (part_002:120)
\* is runnable once that promise is fulfilled; f is an onFulfilled handler
\* only, so a rejected subscribePromise never runs it.
ReactionRunnable(i) ==
  /\ subscriptions[i].reaction = "registered"
  /\ promises[subscriptions[i].subscribeId].state = "resolved"

\* No promise reaction is waiting to run: the next macrotask may start.
MicrotasksEmpty == \A i \in DOMAIN subscriptions : ~ReactionRunnable(i)

\* The ids whose entries an emit/removeAllListeners of key takes away.
CallsOf(em, key) == {em[i].call : i \in {j \in DOMAIN em : em[j].key = key}}

(* ------------------------------------------------------------------ *)
(* Initial state: the constructor (part_002:45-57)                     *)
(* ------------------------------------------------------------------ *)

InitRpc ==
  /\ socket = "open"
  /\ rpcRequestId = 1
  /\ sent = <<>>
  /\ rpcEmitter = <<>>
  /\ timers = {}
  /\ promises = <<>>
  /\ allocated = <<>>
  /\ removed = <<>>

InitEvents ==
  /\ eventEmitter = <<>>
  /\ subscriptions = <<>>

InitEmitters ==
  /\ eventEmitters = <<>>
  /\ emitterObjs = <<>>
  /\ xhrRequests = <<>>
  /\ inbound = 0

InitChannels ==
  /\ eventbus = <<>>
  /\ channelSubs = <<>>
  /\ methodCalls = <<>>

\* The RemoteFile constructor (RemoteFile.js:37-46): _watchSubscription and
\* _pendingSubscription are not assigned and are undefined, which is falsy.
\* watchSubscription is 0 for no watcher, or the number of the watcher held.
\* disposed has one flag per Disposable returned by onDidChange / onDidRename /
\* onDidDelete, watchErrorListeners one flag per 'will-throw-watch-error'
\* callback (whether it calls handle). emitted, raised and settled tell what
\* the latest turn emitted, which error it raised and which handler it ended.
\* attached counts, per watcher, how often the native handlers were attached,
\* unwatched how many unwatchFile requests were sent while it was held.
\* written is the text of the latest write that completed.
InitRemoteFile ==
  /\ fileContents = "a"
  /\ remoteFile =
               [subscriptionCount |-> 0,
                watchSubscription |-> 0,
                pendingSubscription |-> FALSE,
                cachedContents |-> "null",
                deleted |-> FALSE,
                tasks |-> <<>>,
                disposed |-> <<>>,
                watchErrorListeners |-> <<>>,
                emitted |-> <<>>,
                raised |-> "none",
                settled |-> "none",
                attached |-> <<>>,
                unwatched |-> <<>>,
                didDeleteCount |-> 0,
                written |-> "null",
                listenersAdded |-> 0,
                operations |-> 0,
                reads |-> 0,
                watchFileCalls |-> 0,
                watchFileFailures |-> 0,
                established |-> 0,
                unwatchFileCalls |-> 0,
                released |-> 0]

\* The files the active text editor can show; 0 is no editor or no file.
ActiveFiles == {0, 1, 2}

\* The FileTreeController constructor and _initializePanel (part_005:392-465):
\* the tree is visible unless the serialized state says otherwise, the panel is
\* added with that visibility, and no reveal is pending. revealed is the node
\* key the latest command passed to revealNodeKey, 0 for none.
FileTreeAfterConstruction(panelIsVisible, file) ==
  [isVisible |-> IF panelIsVisible /= "null" THEN panelIsVisible = "true"
                 ELSE TRUE,
   panelVisible |-> IF panelIsVisible /= "null" THEN panelIsVisible = "true"
                    ELSE TRUE,
   treeHasFocus |-> FALSE,
   revealActiveFilePending |-> FALSE,
   activeFile |-> file,
   revealed |-> 0,
   commands |-> 0]

InitBus ==
  /\ InitRpc
  /\ InitEvents
  /\ InitEmitters
  /\ InitChannels
  /\ InitRemoteFile
  /\ last = [op |-> "init"]

\* Without a serialized state the tree is shown.
Init ==
  /\ InitBus
  /\ fileTree = FileTreeAfterConstruction("null", 0)

\* The controller constructed from any serialized state, with any active file.
InitFileTree ==
  /\ InitBus
  /\ fileTree \in {FileTreeAfterConstruction(p, file) :
                     p \in {"null", "true", "false"}, file \in ActiveFiles}

(* ------------------------------------------------------------------ *)
(* callServiceFrameworkMethod (part_002:152-180)                       *)
(* ------------------------------------------------------------------ *)

\* The rejection value of the timer: the template string of line 177.
TimeoutError(timeout, serviceName, methodName) ==
  [kind |-> "timeout", timeout |-> timeout,
   serviceName |-> serviceName, methodName |-> methodName]

\* The state after callServiceFrameworkMethod ran: the id is taken first, then
\* socket.send, which throws a TypeError on a null socket and rejects the
\* async function's promise; otherwise the listener and the timer are set up.
CallEffect(by, serviceName, methodName, methodArgs, timeout) ==
  LET requestId == rpcRequestId IN
  /\ rpcRequestId' = rpcRequestId + 1
  /\ allocated' = Append(allocated, [id |-> requestId, by |-> by])
  /\ removed' = removed @@ (requestId :> <<>>)
  /\ socket' = socket
  /\ IF socket = "null"
     THEN /\ promises' = promises @@ (requestId :>
               [state |-> "rejected", value |-> [kind |-> "TypeError"],
                serviceName |-> serviceName, methodName |-> methodName,
                timeout |-> timeout])
          /\ UNCHANGED <<sent, rpcEmitter, timers>>
     ELSE /\ sent' = Append(sent, [serviceName |-> serviceName,
                                   methodName |-> methodName,
                                   methodArgs |-> methodArgs,
                                   requestId |-> requestId])
          /\ rpcEmitter' = Append(rpcEmitter,
                                  [key |-> NumberToString(requestId), call |-> requestId])
          /\ timers' = timers \cup {requestId}
          /\ promises' = promises @@ (requestId :>
               [state |-> "pending", value |-> Undefined,
                serviceName |-> serviceName, methodName |-> methodName,
                timeout |-> timeout])

\* A caller invokes callServiceFrameworkMethod directly.
CallServiceFrameworkMethod(serviceName, timeout) ==
  /\ rpcRequestId <= MaxRequestId
  /\ CallEffect("call", serviceName, "m", <<>>, timeout)
  /\ UNCHANGED <<evVars, emVars, rfVars, ftVars>>

\* A timer callback that rejects without removing the pending entry.
TimerEffectKeepsListener(id) ==
  /\ rpcEmitter' = rpcEmitter
  /\ removed' = removed
  /\ promises' = SettlePromise(promises, id, "rejected",
                   TimeoutError(promises[id].timeout, promises[id].serviceName,
                                promises[id].methodName))
  /\ timers' = timers \ {id}

\* A timer callback that calls removeAllListeners() without the key: every
\* pending entry is taken off the emitter.
TimerEffectRemovesEveryListener(id) ==
  /\ rpcEmitter' = <<>>
  /\ removed' = LogRemoval(removed, {rpcEmitter[i].call : i \in DOMAIN rpcEmitter},
                           "timer")
  /\ promises' = SettlePromise(promises, id, "rejected",
                   TimeoutError(promises[id].timeout, promises[id].serviceName,
                                promises[id].methodName))
  /\ timers' = timers \ {id}

\* The setTimeout callback of a call (part_002:175-178).
TimerEffect(id) ==
  /\ rpcEmitter' = RemoveAllListeners(rpcEmitter, NumberToString(id))
  /\ removed' = LogRemoval(removed, CallsOf(rpcEmitter, NumberToString(id)), "timer")
  /\ promises' = SettlePromise(promises, id, "rejected",
                   TimeoutError(promises[id].timeout, promises[id].serviceName,
                                promises[id].methodName))
  /\ timers' = timers \ {id}

TimerFires(id) ==
  /\ MicrotasksEmpty
  /\ id \in timers
  /\ TimerEffect(id)
  /\ UNCHANGED <<evVars, emVars, rfVars, ftVars>>
  /\ UNCHANGED <<socket, rpcRequestId, sent, allocated>>

(* ------------------------------------------------------------------ *)
(* _handleSocketMessage, RPC channel (part_002:62-66)                  *)
(* ------------------------------------------------------------------ *)

\* A dispatch that ignores the key: every pending listener is taken and run.
RpcChannelEffectAnyKey(requestId, error, result) ==
  /\ rpcEmitter' = <<>>
  /\ removed' = LogRemoval(removed, {rpcEmitter[i].call : i \in DOMAIN rpcEmitter},
                           "response")
  /\ promises' = RunRpcListeners(promises, rpcEmitter, error, result)

\* emit(requestId.toString(), error, result): the once-listeners of the key are
\* taken off the emitter and run.
RpcChannelEffect(requestId, error, result) ==
  LET key == NumberToString(requestId) IN
  /\ rpcEmitter' = TakeOnceListeners(rpcEmitter, key)
  /\ removed' = LogRemoval(removed, CallsOf(rpcEmitter, key), "response")
  /\ promises' = RunRpcListeners(promises, ListenersOf(rpcEmitter, key), error, result)

HandleRpcMessage(requestId, error, result) ==
  /\ MicrotasksEmpty
  /\ RpcChannelEffect(requestId, error, result)
  /\ UNCHANGED <<evVars, emVars, rfVars, ftVars>>
  /\ UNCHANGED <<socket, rpcRequestId, sent, timers, allocated>>

(* ------------------------------------------------------------------ *)
(* The id generator handed to ClientComponent (part_002:55-56)         *)
(* ------------------------------------------------------------------ *)

\* A generator that returns the counter without advancing it.
ClientComponentNextIdNoIncrement ==
  /\ rpcRequestId <= MaxRequestId
  /\ Len(allocated) <= MaxRequestId
  /\ allocated' = Append(allocated, [id |-> rpcRequestId, by |-> "clientComponent"])
  /\ removed' = removed @@ (rpcRequestId :> <<>>)
  /\ UNCHANGED <<socket, rpcRequestId, sent, rpcEmitter, timers, promises>>
  /\ UNCHANGED <<evVars, emVars, rfVars, ftVars>>

ClientComponentNextId ==
  /\ rpcRequestId <= MaxRequestId
  /\ rpcRequestId' = rpcRequestId + 1
  /\ allocated' = Append(allocated, [id |-> rpcRequestId, by |-> "clientComponent"])
  /\ removed' = removed @@ (rpcRequestId :> <<>>)
  /\ UNCHANGED <<socket, sent, rpcEmitter, timers, promises>>
  /\ UNCHANGED <<evVars, emVars, rfVars, ftVars>>

(* ------------------------------------------------------------------ *)
(* close (part_002:255-258)                                            *)
(* ------------------------------------------------------------------ *)

\* this.socket.close() on a null socket throws a TypeError (part_002:256).
CloseThrows == socket = "null"

\* On an open socket: socket.close(), then the field is nulled.  On a null
\* socket the first statement throws a TypeError and nothing changes.
Close ==
  /\ socket' = "null"
  /\ UNCHANGED <<rpcRequestId, sent, rpcEmitter, timers, promises, allocated, removed>>
  /\ UNCHANGED <<evVars, emVars, rfVars, ftVars>>

(* ------------------------------------------------------------------ *)
(* registerEventListener and its Disposable (part_002:91-123)          *)
(* ------------------------------------------------------------------ *)

\* String.prototype.split(sep) on a character sequence: the pieces between
\* the separators, in order.
RECURSIVE SplitFrom(_, _, _)
SplitFrom(s, sep, piece) ==
  IF s = <<>> THEN <<piece>>
  ELSE IF Head(s) = sep THEN <<piece>> \o SplitFrom(Tail(s), sep, <<>>)
  ELSE SplitFrom(Tail(s), sep, Append(piece, Head(s)))

Split(s, sep) == SplitFrom(s, sep, <<>>)

\* Array destructuring: the element at index i (from 1), or undefined.
ElementOrUndefined(a, i) == IF i <= Len(a) THEN a[i] ELSE Undefined

\* getRemoteEventName of ./service-manager: a deterministic function of the
\* service name, the method name and the options.
GetRemoteEventName(serviceName, eventMethodName, serviceOptions) ==
  <<serviceName, eventMethodName, serviceOptions>>

\* The default timeout of callServiceFrameworkMethod, from ./config.
SERVICE_FRAMEWORK_RPC_TIMEOUT_MS == 60 * 1000

\* A removeListener that removes nothing.
RemoveListenerNothing(em, name, cb) == em

\* A removeListener that drops every listener of the name.
RemoveListenerWholeName(em, name, cb) == SelectSeq(em, LAMBDA l : l.name /= name)

\* emitter.removeListener(name, cb): the last matching listener is removed.
RemoveListener(em, name, cb) ==
  LET hits == {i \in DOMAIN em : em[i].name = name /\ em[i].cb = cb} IN
  IF hits = {} THEN em
  ELSE LET k == CHOOSE i \in hits : \A j \in hits : j <= i IN
       SubSeq(em, 1, k - 1) \o SubSeq(em, k + 1, Len(em))

\* The callbacks emit(name, ...) calls, in order.
RECURSIVE CallbacksOf(_, _)
CallbacksOf(em, name) ==
  IF em = <<>> THEN <<>>
  ELSE (IF Head(em).name = name THEN <<Head(em).cb>> ELSE <<>>)
       \o CallbacksOf(Tail(em), name)

\* A registerEventListener that leaves attaching the listener to the
\* completion of the subscribe call: nothing is attached when it returns.
RegisterEventListenerAttachesLater(localEventName, callback, serviceOptions) ==
  LET parts == Split(localEventName, "/")
      serviceName == ElementOrUndefined(parts, 1)
      eventMethodName == ElementOrUndefined(parts, 2)
      remoteEventName == GetRemoteEventName(serviceName, eventMethodName, serviceOptions)
      sub == [localEventName |-> localEventName, cb |-> callback,
              serviceName |-> serviceName, methodName |-> eventMethodName,
              remoteEventName |-> remoteEventName]
  IN
  /\ Len(subscriptions) < MaxSubscriptions
  /\ socket = "open" => rpcRequestId <= MaxRequestId
  /\ UNCHANGED <<emVars, rfVars, ftVars>>
  /\ eventEmitter' = eventEmitter
  /\ IF socket = "null"
     THEN /\ subscriptions' = Append(subscriptions,
               sub @@ [subscribeId |-> 0, threw |-> TRUE, disposed |-> FALSE,
                       disposedWhile |-> "none", reaction |-> "none",
                       unsubscribeId |-> 0])
          /\ UNCHANGED rpcVars
     ELSE /\ CallEffect("call", "serviceFramework", "subscribeEvent",
                        <<SocketId, serviceName, eventMethodName>>,
                        SERVICE_FRAMEWORK_RPC_TIMEOUT_MS)
          /\ subscriptions' = Append(subscriptions,
               sub @@ [subscribeId |-> rpcRequestId, threw |-> FALSE,
                       disposed |-> FALSE, disposedWhile |-> "none",
                       reaction |-> "none", unsubscribeId |-> 0])

\* registerEventListener(localEventName, callback, serviceOptions).  The
\* listener is attached first (line 116); _subscribeEventOnServer then reads
\* this.socket.id, which throws a TypeError on a null socket, so that no
\* Disposable is returned.
RegisterEventListener(localEventName, callback, serviceOptions) ==
  LET parts == Split(localEventName, "/")
      serviceName == ElementOrUndefined(parts, 1)
      eventMethodName == ElementOrUndefined(parts, 2)
      remoteEventName == GetRemoteEventName(serviceName, eventMethodName, serviceOptions)
      sub == [localEventName |-> localEventName, cb |-> callback,
              serviceName |-> serviceName, methodName |-> eventMethodName,
              remoteEventName |-> remoteEventName]
  IN
  /\ Len(subscriptions) < MaxSubscriptions
  /\ socket = "open" => rpcRequestId <= MaxRequestId
  /\ UNCHANGED <<emVars, rfVars, ftVars>>
  /\ eventEmitter' = Append(eventEmitter, [name |-> remoteEventName, cb |-> callback])
  /\ IF socket = "null"
     THEN /\ subscriptions' = Append(subscriptions,
               sub @@ [subscribeId |-> 0, threw |-> TRUE, disposed |-> FALSE,
                       disposedWhile |-> "none", reaction |-> "none",
                       unsubscribeId |-> 0])
          /\ UNCHANGED rpcVars
     ELSE /\ CallEffect("call", "serviceFramework", "subscribeEvent",
                        <<SocketId, serviceName, eventMethodName>>,
                        SERVICE_FRAMEWORK_RPC_TIMEOUT_MS)
          /\ subscriptions' = Append(subscriptions,
               sub @@ [subscribeId |-> rpcRequestId, threw |-> FALSE,
                       disposed |-> FALSE, disposedWhile |-> "none",
                       reaction |-> "none", unsubscribeId |-> 0])

\* The disposal action (part_002:118-122): the listener is removed, then the
\* unsubscribe is chained on subscribePromise.
DisposalAction(i) ==
  LET sub == subscriptions[i] IN
  /\ eventEmitter' = RemoveListener(eventEmitter, sub.remoteEventName, sub.cb)
  /\ subscriptions' = [subscriptions EXCEPT
        ![i].disposed = TRUE,
        ![i].disposedWhile = promises[sub.subscribeId].state,
        ![i].reaction = "registered"]

\* disposable.dispose(): event-kit runs the disposal action on the first call
\* only.
Dispose(i) ==
  /\ i \in DOMAIN subscriptions
  /\ ~subscriptions[i].threw
  /\ IF subscriptions[i].disposed
     THEN UNCHANGED evVars
     ELSE DisposalAction(i)
  /\ UNCHANGED <<rpcVars, emVars, rfVars, ftVars>>

\* The reaction of line 121 runs: _unsubscribeEventFromServer reads
\* this.socket.id (a TypeError on a null socket, which rejects the chained
\* promise) and calls callServiceFrameworkMethod.
RunUnsubscribeReaction(i) ==
  /\ i \in DOMAIN subscriptions
  /\ ReactionRunnable(i)
  /\ socket = "open" => rpcRequestId <= MaxRequestId
  /\ IF socket = "null"
     THEN /\ subscriptions' = [subscriptions EXCEPT ![i].reaction = "threw"]
          /\ UNCHANGED rpcVars
     ELSE /\ CallEffect("call", "serviceFramework", "unsubscribeEvent",
                        <<SocketId, subscriptions[i].serviceName,
                          subscriptions[i].methodName>>,
                        SERVICE_FRAMEWORK_RPC_TIMEOUT_MS)
          /\ subscriptions' = [subscriptions EXCEPT
                ![i].reaction = "ran", ![i].unsubscribeId = rpcRequestId]
  /\ eventEmitter' = eventEmitter
  /\ UNCHANGED <<emVars, rfVars, ftVars>>

(* ------------------------------------------------------------------ *)
(* _handleSocketMessage, event channel (part_002:68-72)                *)
(* ------------------------------------------------------------------ *)

\* emit(event.name, ...event.args): every listener of the name is called.
HandleEventMessage(name) ==
  /\ MicrotasksEmpty
  /\ UNCHANGED rpcVars
  /\ UNCHANGED <<evVars, emVars, rfVars, ftVars>>

(* ------------------------------------------------------------------ *)
(* consumeStream / consumeEventEmitter (part_002:215-253)              *)
(* ------------------------------------------------------------------ *)

\* eventEmitterChannel(id) (part_002:261-263).
EventEmitterChannel(id) == <<"event_emitter/", id>>

\* A consumeEventEmitter that stores the emitter in the registry only after
\* the subscribe request: nothing is registered when the request goes out.
ConsumeEventEmitterRegistersLate(eventEmitterId, eventNames, disposeEventNames) ==
  LET n == Len(emitterObjs) + 1 IN
  /\ n <= MaxEmitters
  /\ emitterObjs' = Append(emitterObjs,
        [id |-> eventEmitterId,
         eventNames |-> eventNames,
         disposeNames |-> {disposeEventNames[k] : k \in DOMAIN disposeEventNames},
         once |-> {disposeEventNames[k] : k \in DOMAIN disposeEventNames},
         errorListener |-> FALSE,
         emitted |-> <<>>,
         arrived |-> <<>>,
         pc |-> IF socket = "null" THEN "rejected" ELSE "waitForConnect"])
  /\ eventEmitters' = eventEmitters
  /\ UNCHANGED <<xhrRequests, inbound>>
  /\ UNCHANGED <<rpcVars, evVars, chVars, rfVars, ftVars>>

\* consumeEventEmitter up to its first await: a fresh emitter is stored under
\* the id, replacing any emitter stored there, and gets a once-listener per
\* dispose event name (disposeNames keeps the list the caller gave, once the
\* listeners that are still attached).  _callSubscribe then calls this.socket.waitForConnect(),
\* which throws a TypeError on a null socket and rejects the promise.
ConsumeEventEmitter(eventEmitterId, eventNames, disposeEventNames) ==
  LET n == Len(emitterObjs) + 1 IN
  /\ n <= MaxEmitters
  /\ emitterObjs' = Append(emitterObjs,
        [id |-> eventEmitterId,
         eventNames |-> eventNames,
         disposeNames |-> {disposeEventNames[k] : k \in DOMAIN disposeEventNames},
         once |-> {disposeEventNames[k] : k \in DOMAIN disposeEventNames},
         errorListener |-> FALSE,
         emitted |-> <<>>,
         arrived |-> <<>>,
         pc |-> IF socket = "null" THEN "rejected" ELSE "waitForConnect"])
  /\ eventEmitters' = (eventEmitterId :> n) @@ eventEmitters
  /\ UNCHANGED <<xhrRequests, inbound>>
  /\ UNCHANGED <<rpcVars, evVars, chVars, rfVars, ftVars>>

\* consumeStream(streamId) (part_002:226-229).
ConsumeStream(streamId) ==
  ConsumeEventEmitter(streamId, <<"data", "error", "close", "end">>, <<"end">>)

\* A _callSubscribe that goes on with the socket it held before the await: the
\* subscribe request is issued whether or not close() ran in between.
WaitForConnectSettlesKeepsSocket(n, connected) ==
  /\ n \in DOMAIN emitterObjs
  /\ emitterObjs[n].pc = "waitForConnect"
  /\ IF connected
     THEN /\ xhrRequests' = Append(xhrRequests,
                [uri |-> "eventbus/subscribe",
                 args |-> <<SocketId, EventEmitterChannel(emitterObjs[n].id),
                            [eventEmitterId |-> emitterObjs[n].id,
                             eventNames |-> emitterObjs[n].eventNames]>>])
          /\ emitterObjs' = [emitterObjs EXCEPT ![n].pc = "xhrRequest"]
     ELSE /\ xhrRequests' = xhrRequests
          /\ emitterObjs' = [emitterObjs EXCEPT ![n].pc = "rejected"]
  /\ UNCHANGED <<eventEmitters, inbound>>
  /\ UNCHANGED <<rpcVars, evVars, chVars, rfVars, ftVars>>

\* socket.waitForConnect() settles and _callSubscribe goes on (part_002:217-223):
\* a rejection rejects consumeEventEmitter's promise; otherwise the arguments
\* of callMethod are built, reading this.socket.id (a TypeError on a null
\* socket), and callMethod hands the subscribe request to socket.xhrRequest.
WaitForConnectSettles(n, connected) ==
  /\ n \in DOMAIN emitterObjs
  /\ emitterObjs[n].pc = "waitForConnect"
  /\ IF connected /\ socket = "open"
     THEN /\ xhrRequests' = Append(xhrRequests,
                [uri |-> "eventbus/subscribe",
                 args |-> <<SocketId, EventEmitterChannel(emitterObjs[n].id),
                            [eventEmitterId |-> emitterObjs[n].id,
                             eventNames |-> emitterObjs[n].eventNames]>>])
          /\ emitterObjs' = [emitterObjs EXCEPT ![n].pc = "xhrRequest"]
     ELSE /\ xhrRequests' = xhrRequests
          /\ emitterObjs' = [emitterObjs EXCEPT ![n].pc = "rejected"]
  /\ UNCHANGED <<eventEmitters, inbound>>
  /\ UNCHANGED <<rpcVars, evVars, chVars, rfVars, ftVars>>

\* The xhrRequest of callMethod settles (part_002:137-149, 248-252): on success
\* consumeEventEmitter resolves with the emitter, on failure it rejects.
XhrRequestSettles(n, ok) ==
  /\ n \in DOMAIN emitterObjs
  /\ emitterObjs[n].pc = "xhrRequest"
  /\ emitterObjs' = [emitterObjs EXCEPT ![n].pc = IF ok THEN "resolved" ELSE "rejected"]
  /\ UNCHANGED <<eventEmitters, xhrRequests, inbound>>
  /\ UNCHANGED <<rpcVars, evVars, chVars, rfVars, ftVars>>

(* ------------------------------------------------------------------ *)
(* callMethod and subscribeToChannel (part_002:125-150, 207-224)       *)
(* ------------------------------------------------------------------ *)

\* The method a caller invokes through callMethod, and what the transport
\* answers: a response body or an error.
MethodUris == {"svc/method"}
XhrOutcomes == {[ok |-> TRUE, value |-> "body"], [ok |-> FALSE, value |-> "xhrError"]}

\* The channels and handlers of subscribeToChannel calls, and the (channel,
\* handler) pairs subscribeToChannel is called with.
Channels == {"chA", "chB"}
Handlers == {"h1", "h2"}
ChannelRegistrations ==
  {[channel |-> "chA", handler |-> "h1"],
   [channel |-> "chA", handler |-> "h2"],
   [channel |-> "chB", handler |-> "h1"]}

\* callMethod up to its await: on a null socket it logs and returns, so that
\* its promise resolves with undefined; otherwise the request is handed to
\* socket.xhrRequest.
CallMethod(uri) ==
  /\ Len(methodCalls) < MaxMethodCalls
  /\ IF socket = "null"
     THEN /\ methodCalls' = Append(methodCalls,
                [uri |-> uri, pc |-> "resolved", value |-> Undefined])
          /\ xhrRequests' = xhrRequests
     ELSE /\ methodCalls' = Append(methodCalls,
                [uri |-> uri, pc |-> "xhrRequest", value |-> Undefined])
          /\ xhrRequests' = Append(xhrRequests, [uri |-> uri, args |-> <<>>])
  /\ UNCHANGED <<eventEmitters, emitterObjs, inbound, eventbus, channelSubs>>
  /\ UNCHANGED <<rpcVars, evVars, rfVars, ftVars>>

\* A callMethod whose catch block logs the error without throwing it again:
\* the promise resolves with undefined.
MethodCallSettlesSwallowsError(n, outcome) ==
  /\ n \in DOMAIN methodCalls
  /\ methodCalls[n].pc = "xhrRequest"
  /\ methodCalls' = [methodCalls EXCEPT
        ![n].pc = "resolved",
        ![n].value = IF outcome.ok THEN outcome.value ELSE Undefined]
  /\ UNCHANGED <<eventEmitters, emitterObjs, xhrRequests, inbound, eventbus, channelSubs>>
  /\ UNCHANGED <<rpcVars, evVars, rfVars, ftVars>>

\* The xhrRequest of a direct callMethod settles (part_002:137-149): its value
\* is returned, its error is logged and thrown again.
MethodCallSettles(n, outcome) ==
  /\ n \in DOMAIN methodCalls
  /\ methodCalls[n].pc = "xhrRequest"
  /\ methodCalls' = [methodCalls EXCEPT
        ![n].pc = IF outcome.ok THEN "resolved" ELSE "rejected",
        ![n].value = outcome.value]
  /\ UNCHANGED <<eventEmitters, emitterObjs, xhrRequests, inbound, eventbus, channelSubs>>
  /\ UNCHANGED <<rpcVars, evVars, rfVars, ftVars>>

\* subscribeToChannel up to its first await: _callSubscribe calls
\* this.socket.waitForConnect(), a TypeError on a null socket.
SubscribeToChannel(channel, handler) ==
  /\ Len(channelSubs) < MaxChannelSubscriptions
  /\ channelSubs' = Append(channelSubs,
        [channel |-> channel, handler |-> handler, disposed |-> FALSE,
         pc |-> IF socket = "null" THEN "rejected" ELSE "waitForConnect"])
  /\ UNCHANGED <<eventEmitters, emitterObjs, xhrRequests, inbound, eventbus, methodCalls>>
  /\ UNCHANGED <<rpcVars, evVars, rfVars, ftVars>>

\* waitForConnect settles for a subscribeToChannel call (part_002:217-223):
\* as for consumeEventEmitter, with the default options {}.
ChannelWaitForConnectSettles(n, connected) ==
  /\ n \in DOMAIN channelSubs
  /\ channelSubs[n].pc = "waitForConnect"
  /\ IF connected /\ socket = "open"
     THEN /\ xhrRequests' = Append(xhrRequests,
                [uri |-> "eventbus/subscribe",
                 args |-> <<SocketId, channelSubs[n].channel, "{}">>])
          /\ channelSubs' = [channelSubs EXCEPT ![n].pc = "xhrRequest"]
     ELSE /\ xhrRequests' = xhrRequests
          /\ channelSubs' = [channelSubs EXCEPT ![n].pc = "rejected"]
  /\ UNCHANGED <<eventEmitters, emitterObjs, inbound, eventbus, methodCalls>>
  /\ UNCHANGED <<rpcVars, evVars, rfVars, ftVars>>

\* The subscribe request of a subscribeToChannel call settles: on success the
\* handler is attached with this.eventbus.on(channel, handler) and the
\* Disposable is returned (part_002:208-212), on failure the promise rejects.
ChannelXhrRequestSettles(n, ok) ==
  /\ n \in DOMAIN channelSubs
  /\ channelSubs[n].pc = "xhrRequest"
  /\ IF ok
     THEN /\ eventbus' = Append(eventbus, [channel |-> channelSubs[n].channel,
                                           handler |-> channelSubs[n].handler])
          /\ channelSubs' = [channelSubs EXCEPT ![n].pc = "subscribed"]
     ELSE /\ eventbus' = eventbus
          /\ channelSubs' = [channelSubs EXCEPT ![n].pc = "rejected"]
  /\ UNCHANGED <<eventEmitters, emitterObjs, xhrRequests, inbound, methodCalls>>
  /\ UNCHANGED <<rpcVars, evVars, rfVars, ftVars>>

\* The class NuclideRemoteEventbus defines no removeListener method and
\* extends nothing (part_002:32-259).
BusHasRemoveListener == FALSE

\* dispose() of the object subscribeToChannel returned (part_002:210-212):
\* `this.removeListener(channel, handler)` is a call of undefined, a TypeError
\* each time, and the handler stays on this.eventbus.
DisposeChannelSubscription(n) ==
  /\ n \in DOMAIN channelSubs
  /\ channelSubs[n].pc = "subscribed"
  /\ channelSubs' = [channelSubs EXCEPT ![n].disposed = TRUE]
  /\ eventbus' = IF BusHasRemoveListener
                 THEN SelectSeq(eventbus, LAMBDA l :
                        ~(l.channel = channelSubs[n].channel
                          /\ l.handler = channelSubs[n].handler))
                 ELSE eventbus
  /\ UNCHANGED <<eventEmitters, emitterObjs, xhrRequests, inbound, methodCalls>>
  /\ UNCHANGED <<rpcVars, evVars, rfVars, ftVars>>

(* ------------------------------------------------------------------ *)
(* _handleSocketMessage, generic channel (part_002:80-88)              *)
(* ------------------------------------------------------------------ *)

\* An emit that calls every listener, whatever channel it was attached for.
HandlersOfAnyChannel(bus, channel) == [k \in DOMAIN bus |-> bus[k].handler]

\* The handlers eventbus.emit(channel, event) calls, in order: the listeners
\* attached for the channel.
HandlersOf(bus, channel) ==
  LET ls == SelectSeq(bus, LAMBDA l : l.channel = channel) IN
  [k \in DOMAIN ls |-> ls[k].handler]

\* A message {channel, event} on none of the three framework channels, whose
\* event carries no eventEmitterId: this.eventbus.emit(channel, event).
HandleChannelMessage(channel) ==
  /\ MicrotasksEmpty
  /\ UNCHANGED <<rpcVars, evVars, emVars, rfVars, ftVars>>

\* The caller that was handed the emitter (part_002:252) attaches a listener
\* for 'error' events to it.
OnError(n) ==
  /\ n \in DOMAIN emitterObjs
  /\ emitterObjs[n].pc = "resolved"
  /\ ~emitterObjs[n].errorListener
  /\ emitterObjs' = [emitterObjs EXCEPT ![n].errorListener = TRUE]
  /\ UNCHANGED <<eventEmitters, xhrRequests, inbound>>
  /\ UNCHANGED <<rpcVars, evVars, chVars, rfVars, ftVars>>

(* ------------------------------------------------------------------ *)
(* _handleSocketMessage, stream events (part_002:80-88)                *)
(* ------------------------------------------------------------------ *)

\* ToBoolean of a number.
NumberTruthy(n) == n /= 0

\* event && event.eventEmitterId (part_002:80), for an event that is present.
HasEventEmitterId(eventEmitterId) == NumberTruthy(eventEmitterId)

\* EventEmitter.emit('error', ...) throws when the emitter has no listener for
\* 'error': neither one the caller attached nor a once-listener of a dispose
\* event named 'error'.
EmitThrows(o, type) ==
  /\ type = "error"
  /\ ~o.errorListener
  /\ "error" \notin o.once

\* delete obj[key] on the registry.
DeleteKey(f, key) == [k \in DOMAIN f \ {key} |-> f[k]]

\* A stream message {channel, event: {eventEmitterId, type, args}}.  dests are
\* the destinations the handler invoked.
StreamMessageEffect(eventEmitterId, type, seq) ==
  LET registeredBefore == eventEmitterId \in DOMAIN eventEmitters
      \* The emitter that is registered for the id when the message arrives
      \* has the message noted as arrived for it.
      noted == IF registeredBefore
               THEN [emitterObjs EXCEPT ![eventEmitters[eventEmitterId]].arrived =
                        Append(@, [seq |-> seq, type |-> type])]
               ELSE emitterObjs
  IN
  IF HasEventEmitterId(eventEmitterId)
  THEN IF ~registeredBefore
       THEN \* logger.error('eventEmitter not found'), return
            /\ emitterObjs' = noted
            /\ eventEmitters' = eventEmitters
            /\ last' = [op |-> "streamMessage", id |-> eventEmitterId,
                        type |-> type, dests |-> {}, threw |-> FALSE]
       ELSE LET n == eventEmitters[eventEmitterId] IN
            IF EmitThrows(emitterObjs[n], type)
            THEN \* eventEmitter.emit('error', ...args) throws out of the
                 \* handler before any listener or the eventbus is reached.
                 /\ emitterObjs' = noted
                 /\ eventEmitters' = eventEmitters
                 /\ last' = [op |-> "streamMessage", id |-> eventEmitterId,
                             type |-> type, dests |-> {}, threw |-> TRUE]
            ELSE \* eventEmitter.emit(type, ...args): the once-listener of a
                 \* dispose event deletes the registry entry of the id; then
                 \* the message goes on to this.eventbus.emit(channel, event).
                 /\ emitterObjs' = [noted EXCEPT
                       ![n].emitted = Append(@, [seq |-> seq, type |-> type]),
                       ![n].once = @ \ {type}]
                 /\ eventEmitters' = IF type \in emitterObjs[n].once
                                     THEN DeleteKey(eventEmitters, eventEmitterId)
                                     ELSE eventEmitters
                 /\ last' = [op |-> "streamMessage", id |-> eventEmitterId,
                             type |-> type, dests |-> {"emitter", "eventbus"},
                             threw |-> FALSE]
  ELSE \* this.eventbus.emit(channel, event) only
       /\ emitterObjs' = noted
       /\ eventEmitters' = eventEmitters
       /\ last' = [op |-> "streamMessage", id |-> eventEmitterId,
                   type |-> type, dests |-> {"eventbus"}, threw |-> FALSE]

HandleStreamMessage(eventEmitterId, type) ==
  /\ MicrotasksEmpty
  /\ inbound < MaxStreamMessages
  /\ inbound' = inbound + 1
  /\ StreamMessageEffect(eventEmitterId, type, inbound + 1)
  /\ xhrRequests' = xhrRequests
  /\ UNCHANGED <<rpcVars, evVars, chVars, rfVars, ftVars>>

(* ------------------------------------------------------------------ *)
(* _handleSocketMessage, messages with missing fields (part_002:59-89) *)
(* ------------------------------------------------------------------ *)

\* Messages that lack the field their channel's branch reads, and a message
\* without a channel.
MalformedMessages ==
  {[channel |-> "SERVICE_FRAMEWORK_RPC_CHANNEL", requestId |-> Undefined, event |-> Undefined],
   [channel |-> "SERVICE_FRAMEWORK_EVENT_CHANNEL", requestId |-> Undefined, event |-> Undefined],
   [channel |-> "SERVICE_FRAMEWORK3_CHANNEL", requestId |-> Undefined, event |-> Undefined],
   [channel |-> Undefined, requestId |-> Undefined, event |-> Undefined]}

\* The handler throws a TypeError where it reads a property of undefined:
\* requestId.toString() in the two RPC branches, event.name in the event
\* branch.  A message without a channel enters no branch, fails the test
\* `event && event.eventEmitterId` and is emitted on the eventbus.
HandleSocketMessageThrows(message) ==
  \/ /\ message.channel = "SERVICE_FRAMEWORK_RPC_CHANNEL"
     /\ message.requestId = Undefined
  \/ /\ message.channel = "SERVICE_FRAMEWORK_EVENT_CHANNEL"
     /\ message.event = Undefined
  \/ /\ message.channel = "SERVICE_FRAMEWORK3_CHANNEL"
     /\ message.requestId = Undefined

\* The handler run on such a message: the throw comes before any emit, and
\* eventbus.emit(undefined, undefined) finds no listener.
HandleMalformedMessage(message) ==
  /\ MicrotasksEmpty
  /\ message \in MalformedMessages
  /\ UNCHANGED <<rpcVars, evVars, emVars, rfVars, ftVars>>

(* ------------------------------------------------------------------ *)
(* RemoteFile: watching the file on behalf of listeners                *)
(* (pkg/nuclide/remote-connection/lib/RemoteFile.js)                   *)
(* ------------------------------------------------------------------ *)

\* s without its i-th element.
RemoveAt(s, i) == SubSeq(s, 1, i - 1) \o SubSeq(s, i + 1, Len(s))

\* A request in flight and what the function awaiting it does next.
FileTask(await, next) ==
  [await |-> await, next |-> next, previouslyExisted |-> FALSE,
   oldContents |-> "null", text |-> "null", watcher |-> 0]

\* The start of a turn: what the previous turn emitted, raised and settled is
\* no longer visible.
BeginTurn(f) == [f EXCEPT !.emitted = <<>>, !.raised = "none", !.settled = "none"]

\* this._emitter.emit(event).
EmitFileEvent(f, event) == [f EXCEPT !.emitted = Append(@, event)]

\* What the caller of _subscribeToNativeChangeEvents does once the promise it
\* awaits has resolved: _handleNativeRenameEvent emits 'did-rename'
\* (RemoteFile.js:121-122), the other callers do nothing more.
ContinueAfterSubscribe(f, next) ==
  IF next = "did-rename"
  THEN [EmitFileEvent(f, "did-rename") EXCEPT !.settled = "rename"]
  ELSE f

\* _subscribeToNativeChangeEvents up to its await (RemoteFile.js:68-77):
\* nothing when a watcher is held or a watchFile is pending; otherwise the
\* pending flag is set and watchFile is requested.
SubscribeToNativeChangeEvents(f, next) ==
  IF f.watchSubscription /= 0 THEN ContinueAfterSubscribe(f, next)
  ELSE IF f.pendingSubscription THEN ContinueAfterSubscribe(f, next)
  ELSE [f EXCEPT !.pendingSubscription = TRUE,
                 !.tasks = Append(@, FileTask("watchFile", next)),
                 !.watchFileCalls = @ + 1]

\* At least one 'will-throw-watch-error' listener calls handle().
WatchErrorHandled(f) ==
  \E n \in DOMAIN f.watchErrorListeners : f.watchErrorListeners[n]

\* What the caller of _unsubscribeFromNativeChangeEvents does once it
\* returned. _didRemoveSubscription does nothing. _handleNativeRenameEvent
\* clears the cache and subscribes again without looking at
\* _subscriptionCount (RemoteFile.js:117-121). _handleNativeDeleteEvent clears
\* the cache and emits 'did-delete' unless _deleted is set
\* (RemoteFile.js:127-131). The catch block of _handleNativeChangeEvent emits
\* 'will-throw-watch-error' and throws an ENOENT error unless a listener
\* called handle (RemoteFile.js:100-111).
ContinueAfterUnsubscribe(f, next) ==
  CASE next = "rename" ->
         SubscribeToNativeChangeEvents([f EXCEPT !.cachedContents = "null"],
                                       "did-rename")
    [] next = "delete" ->
         LET g == [f EXCEPT !.cachedContents = "null", !.settled = "delete"] IN
         IF ~g.deleted
         THEN [EmitFileEvent(g, "did-delete") EXCEPT !.deleted = TRUE,
                                                      !.didDeleteCount = @ + 1]
         ELSE g
    [] next = "watchError" ->
         [EmitFileEvent(f, "will-throw-watch-error") EXCEPT
            !.settled = "watchError",
            !.raised = IF WatchErrorHandled(f) THEN "none" ELSE "ENOENT"]
    [] OTHER -> f

\* One more unwatchFile request sent while watcher w was held.
NoteUnwatch(unwatched, w) == [unwatched EXCEPT ![w] = @ + 1]

\* _unsubscribeFromNativeChangeEvents up to its await (RemoteFile.js:152-157):
\* with a watcher held unwatchFile is requested, and the field is nulled only
\* when that request has completed; without one the caller goes on at once.
UnsubscribeFromNativeChangeEvents(f, next) ==
  IF f.watchSubscription /= 0
  THEN [f EXCEPT !.tasks = Append(@, [FileTask("unwatchFile", next) EXCEPT
                                        !.watcher = f.watchSubscription]),
                 !.unwatchFileCalls = @ + 1,
                 !.unwatched = NoteUnwatch(@, f.watchSubscription)]
  ELSE ContinueAfterUnsubscribe(f, next)

\* onDidChange / onDidRename / onDidDelete (RemoteFile.js:48-66):
\* _willAddSubscription counts the listener and subscribes; the Disposable
\* returned is not disposed yet.
AddListener ==
  /\ remoteFile.listenersAdded < MaxFileListeners
  /\ remoteFile' = SubscribeToNativeChangeEvents(
        [BeginTurn(remoteFile) EXCEPT !.subscriptionCount = @ + 1,
                                      !.listenersAdded = @ + 1,
                                      !.disposed = Append(@, FALSE)],
        "none")
  /\ UNCHANGED <<fileContents, rpcVars, evVars, emVars, ftVars>>

\* A mutant of DisposeListener: the disposal action runs at every dispose().
DisposeListenerEveryTime(n) ==
  /\ n \in DOMAIN remoteFile.disposed
  /\ LET f == [BeginTurn(remoteFile) EXCEPT !.disposed[n] = TRUE,
                                            !.subscriptionCount = @ - 1] IN
     remoteFile' = IF f.subscriptionCount = 0
                   THEN UnsubscribeFromNativeChangeEvents(f, "none")
                   ELSE f
  /\ UNCHANGED <<fileContents, rpcVars, evVars, emVars, ftVars>>

\* dispose() of the n-th Disposable returned by onDidChange / onDidRename /
\* onDidDelete (RemoteFile.js:134-150). A Disposable runs its action at the
\* first dispose() only; then the count goes down, and at 0 the file is
\* unsubscribed.
DisposeListener(n) ==
  /\ n \in DOMAIN remoteFile.disposed
  /\ IF remoteFile.disposed[n]
     THEN remoteFile' = BeginTurn(remoteFile)
     ELSE LET f == [BeginTurn(remoteFile) EXCEPT !.disposed[n] = TRUE,
                                                 !.subscriptionCount = @ - 1] IN
          remoteFile' = IF f.subscriptionCount = 0
                        THEN UnsubscribeFromNativeChangeEvents(f, "none")
                        ELSE f
  /\ UNCHANGED <<fileContents, rpcVars, evVars, emVars, ftVars>>

\* onWillThrowWatchError(callback) (RemoteFile.js:159-161): the callback is
\* put on the emitter and nothing else; callsHandle tells whether the callback
\* calls handle() when run.
OnWillThrowWatchError(callsHandle) ==
  /\ Len(remoteFile.watchErrorListeners) < MaxWatchErrorListeners
  /\ remoteFile' = [BeginTurn(remoteFile) EXCEPT
                      !.watchErrorListeners = Append(@, callsHandle)]
  /\ UNCHANGED <<fileContents, rpcVars, evVars, emVars, ftVars>>

\* The 'change', 'rename' and 'delete' handlers are put on watcher w
\* (RemoteFile.js:83-87).
AttachHandlers(attached, w) ==
  IF w \in DOMAIN attached THEN [attached EXCEPT ![w] = @ + 1]
  ELSE Append(attached, 1)

\* The watchFile request settles (RemoteFile.js:76-87): its watcher is stored
\* whatever the count is by now, or its failure is logged; the pending flag is
\* cleared; the handlers are attached to the watcher the field holds then.
WatchFileSettles(i, ok) ==
  /\ i \in DOMAIN remoteFile.tasks
  /\ remoteFile.tasks[i].await = "watchFile"
  /\ LET f == [BeginTurn(remoteFile) EXCEPT !.tasks = RemoveAt(@, i),
                                            !.pendingSubscription = FALSE]
         g == IF ok
              THEN [f EXCEPT !.watchSubscription = f.established + 1,
                             !.established = @ + 1,
                             !.unwatched = Append(@, 0)]
              ELSE [f EXCEPT !.watchFileFailures = @ + 1]
         h == IF g.watchSubscription /= 0
              THEN [g EXCEPT !.attached = AttachHandlers(@, g.watchSubscription)]
              ELSE g
     IN remoteFile' = ContinueAfterSubscribe(h, remoteFile.tasks[i].next)
  /\ UNCHANGED <<fileContents, rpcVars, evVars, emVars, ftVars>>

\* The unwatchFile request settles (RemoteFile.js:154-155). When it
\* completed the field is nulled, whichever watcher it holds by now, and the
\* caller goes on; when it failed the caller fails with its error.
UnwatchFileSettles(i, ok) ==
  /\ i \in DOMAIN remoteFile.tasks
  /\ remoteFile.tasks[i].await = "unwatchFile"
  /\ LET f == [BeginTurn(remoteFile) EXCEPT !.tasks = RemoveAt(@, i)]
         next == remoteFile.tasks[i].next
     IN remoteFile' =
          IF ok
          THEN ContinueAfterUnsubscribe(
                 [f EXCEPT !.watchSubscription = 0, !.released = @ + 1], next)
          ELSE [f EXCEPT !.raised = "rpc",
                         !.settled = IF next = "none" THEN "dispose" ELSE next]
  /\ UNCHANGED <<fileContents, rpcVars, evVars, emVars, ftVars>>

\* The texts a file can hold.
FileTexts == {"a", "b"}

\* The first request of each file operation: rename (rename), create
\* (newFile) and delete (unlink).
FileOperations == {"rename", "newFile", "unlink"}

\* read() is called (RemoteFile.js:256-260): it asks for the file.
Read ==
  /\ remoteFile.reads < MaxFileReads
  /\ remoteFile' = [BeginTurn(remoteFile) EXCEPT
        !.reads = @ + 1,
        !.tasks = Append(@, FileTask("readFile", "none"))]
  /\ UNCHANGED <<fileContents, rpcVars, evVars, emVars, ftVars>>

\* rename, create or delete is called (RemoteFile.js:232-254): each starts
\* with a request to the file system service.
StartFileOperation(request) ==
  /\ remoteFile.operations < MaxFileOperations
  /\ request \in FileOperations
  /\ remoteFile' = [BeginTurn(remoteFile) EXCEPT
        !.operations = @ + 1,
        !.tasks = Append(@, FileTask(request, "none"))]
  /\ UNCHANGED <<fileContents, rpcVars, evVars, emVars, ftVars>>

\* write(text) is called (RemoteFile.js:272-273): it first asks whether the
\* file exists.
Write(text) ==
  /\ remoteFile.operations < MaxFileOperations
  /\ text \in FileTexts
  /\ remoteFile' = [BeginTurn(remoteFile) EXCEPT
        !.operations = @ + 1,
        !.tasks = Append(@, [FileTask("exists", "none") EXCEPT !.text = text])]
  /\ UNCHANGED <<fileContents, rpcVars, evVars, emVars, ftVars>>

\* Somebody else writes text to the file on the server.
ExternalWrite(text) ==
  /\ remoteFile.operations < MaxFileOperations
  /\ text \in FileTexts
  /\ text /= fileContents
  /\ fileContents' = text
  /\ remoteFile' = [BeginTurn(remoteFile) EXCEPT !.operations = @ + 1]
  /\ UNCHANGED <<rpcVars, evVars, emVars, ftVars>>

\* The watcher held delivers a 'change', a 'rename' or a 'delete' event
\* (RemoteFile.js:84-86). The change handler remembers the cached contents and
\* reads the file (RemoteFile.js:90-93); the rename and delete handlers
\* unsubscribe first (RemoteFile.js:115-132).
NativeEvent(type) ==
  /\ remoteFile.operations < MaxFileOperations
  /\ remoteFile.watchSubscription /= 0
  /\ LET f == [BeginTurn(remoteFile) EXCEPT !.operations = @ + 1] IN
     remoteFile' =
       IF type = "change"
       THEN [f EXCEPT !.tasks = Append(@, [FileTask("readFile", "change") EXCEPT
                                             !.oldContents = f.cachedContents])]
       ELSE UnsubscribeFromNativeChangeEvents(f, type)
  /\ UNCHANGED <<fileContents, rpcVars, evVars, emVars, ftVars>>

\* A mutant of ChangeBaseline: the contents cached when the read completes.
ChangeBaselineCurrentCache(t, f) == f.cachedContents

\* What the change handler compares the contents it read with: the contents
\* that were cached when it started, `var oldContents = this._cachedContents`
\* (RemoteFile.js:91, 94). t is the handler's read, f the RemoteFile when the
\* read completes.
ChangeBaseline(t, f) == t.oldContents

\* The requests to the file system service.
ServiceRequests == FileOperations \cup {"exists", "writeFile", "readFile"}

\* A request to the file system service settles and its operation goes on.
\* For exists, ok is the answer.
ServiceRequestSettles(i, ok) ==
  /\ i \in DOMAIN remoteFile.tasks
  /\ remoteFile.tasks[i].await \in ServiceRequests
  /\ LET t == remoteFile.tasks[i]
         f == [BeginTurn(remoteFile) EXCEPT !.tasks = RemoveAt(@, i)]
         failed == [f EXCEPT !.raised = "rpc", !.settled = t.await]
     IN
     /\ remoteFile' =
       CASE t.await = "exists" ->
              \* write goes on to writeFile (RemoteFile.js:273-274)
              [f EXCEPT !.tasks = Append(@, [FileTask("writeFile", "none") EXCEPT
                                               !.previouslyExisted = ok,
                                               !.text = t.text])]
         [] t.await = "writeFile" ->
              \* RemoteFile.js:275-278
              IF ~ok THEN failed
              ELSE LET g == [f EXCEPT !.cachedContents = t.text,
                                      !.written = t.text] IN
                   IF ~t.previouslyExisted /\ g.subscriptionCount > 0
                   THEN SubscribeToNativeChangeEvents(g, "none") ELSE g
         [] t.await = "newFile" ->
              \* RemoteFile.js:233-236
              IF ~ok THEN failed
              ELSE IF f.subscriptionCount > 0
                   THEN SubscribeToNativeChangeEvents(f, "none") ELSE f
         [] t.await = "rename" ->
              \* rename calls _handleNativeRenameEvent (RemoteFile.js:251-254)
              IF ok THEN UnsubscribeFromNativeChangeEvents(f, "rename") ELSE failed
         [] t.await = "unlink" ->
              \* delete calls _handleNativeDeleteEvent (RemoteFile.js:240-249)
              IF ok THEN UnsubscribeFromNativeChangeEvents(f, "delete") ELSE failed
         [] t.await = "readFile" ->
              \* read caches what it read (RemoteFile.js:260-265); the change
              \* handler compares it with what it remembered, and a failed
              \* read cancels the watch (RemoteFile.js:93-99)
              IF ok
              THEN LET g == [f EXCEPT !.cachedContents = fileContents] IN
                   IF t.next = "change"
                   THEN IF ChangeBaseline(t, f) /= fileContents
                        THEN [EmitFileEvent(g, "did-change") EXCEPT
                                !.settled = "change"]
                        ELSE [g EXCEPT !.settled = "change"]
                   ELSE g
              ELSE IF t.next = "change"
                   THEN UnsubscribeFromNativeChangeEvents(f, "watchError")
                   ELSE failed
     /\ fileContents' = IF t.await = "writeFile" /\ ok THEN t.text
                        ELSE fileContents
  /\ UNCHANGED <<rpcVars, evVars, emVars, ftVars>>

(* ------------------------------------------------------------------ *)
(* FileTreeController: visibility and the pending reveal               *)
(* (part_005:651-732)                                                  *)
(* ------------------------------------------------------------------ *)

\* The start of a command: the node key of the previous one is forgotten.
BeginCommand(t) == [t EXCEPT !.revealed = 0, !.commands = @ + 1]

\* _setVisibility (part_005:651-663): showing shows the panel and focuses the
\* tree; hiding blurs the tree if it has the focus and hides the panel.
SetVisibility(t, shouldBeVisible) ==
  IF shouldBeVisible
  THEN [t EXCEPT !.panelVisible = TRUE, !.treeHasFocus = TRUE,
                 !.isVisible = TRUE]
  ELSE [t EXCEPT !.treeHasFocus = FALSE, !.panelVisible = FALSE,
                 !.isVisible = FALSE]

\* The body of revealActiveFile (part_005:709-732): with showIfHidden the
\* tree is shown first; without an active file nothing more happens; a reveal
\* that must not show a hidden tree is noted as pending; otherwise the file's
\* path goes to revealNodeKey.
RevealActiveFileIn(t, showIfHidden) ==
  LET u == IF showIfHidden THEN SetVisibility(t, TRUE) ELSE t IN
  IF u.activeFile = 0 THEN u
  ELSE IF ~showIfHidden /\ ~u.isVisible
       THEN [u EXCEPT !.revealActiveFilePending = TRUE]
       ELSE [u EXCEPT !.revealed = u.activeFile]

\* revealActiveFile(showIfHidden), as a command (showIfHidden defaults to
\* true) or from the reveal-on-file-switch setting with false (part_005:82).
RevealActiveFile(showIfHidden) ==
  /\ fileTree.commands < MaxTreeCommands
  /\ fileTree' = RevealActiveFileIn(BeginCommand(fileTree), showIfHidden)
  /\ UNCHANGED <<rpcVars, evVars, emVars, rfVars>>

\* A mutant of ToggleVisibility: the pending flag is not cleared.
ToggleVisibilityKeepsPending ==
  /\ fileTree.commands < MaxTreeCommands
  /\ LET willBeVisible == ~fileTree.isVisible
         u == SetVisibility(BeginCommand(fileTree), willBeVisible)
     IN fileTree' = IF willBeVisible /\ u.revealActiveFilePending
                    THEN RevealActiveFileIn(u, TRUE)
                    ELSE u
  /\ UNCHANGED <<rpcVars, evVars, emVars, rfVars>>

\* toggleVisibility (part_005:696-703): the visibility is flipped; when the
\* tree becomes visible and a reveal is pending, revealActiveFile() runs and
\* the flag is cleared.
ToggleVisibility ==
  /\ fileTree.commands < MaxTreeCommands
  /\ LET willBeVisible == ~fileTree.isVisible
         u == SetVisibility(BeginCommand(fileTree), willBeVisible)
     IN fileTree' = IF willBeVisible /\ u.revealActiveFilePending
                    THEN [RevealActiveFileIn(u, TRUE) EXCEPT
                            !.revealActiveFilePending = FALSE]
                    ELSE u
  /\ UNCHANGED <<rpcVars, evVars, emVars, rfVars>>

\* toggleTreeFocus (part_005:688-694).
ToggleTreeFocus ==
  /\ fileTree.commands < MaxTreeCommands
  /\ fileTree' = [BeginCommand(fileTree) EXCEPT !.treeHasFocus = ~@]
  /\ UNCHANGED <<rpcVars, evVars, emVars, rfVars>>

\* The user switches to another editor, or closes the last one: what
\* atom.workspace.getActiveTextEditor() gives changes (part_005:710-712).
ChangeActiveFile(file) ==
  /\ file \in ActiveFiles
  /\ file /= fileTree.activeFile
  /\ fileTree' = [fileTree EXCEPT !.activeFile = file, !.revealed = 0]
  /\ UNCHANGED <<rpcVars, evVars, emVars, rfVars>>

(* ------------------------------------------------------------------ *)
(* Specification of the RPC call engine                                *)
(* ------------------------------------------------------------------ *)

\* What the turn that ran is recorded as: the operation, with the fields of
\* the message or call it handled.
Observe(op, fields) == last' = [op |-> op] @@ fields

NextRpc ==
  \/ \E c \in CallInputs :
       /\ CallServiceFrameworkMethod(c.serviceName, c.timeout)
       /\ Observe("call", [requestId |-> rpcRequestId])
  \/ \E id \in 1..MaxRequestId :
       /\ TimerFires(id)
       /\ Observe("timer", [requestId |-> id])
  \/ \E id \in 1..(MaxRequestId + 1), e \in ErrorValues, r \in ResultValues :
       /\ HandleRpcMessage(id, e, r)
       /\ Observe("rpcMessage", [requestId |-> id, error |-> e, result |-> r])
  \/ /\ ClientComponentNextId
     /\ Observe("nextId", [requestId |-> rpcRequestId])
  \/ \E m \in MalformedMessages :
       /\ HandleMalformedMessage(m)
       /\ Observe("malformed", [channel |-> m.channel,
                                 threw |-> HandleSocketMessageThrows(m)])
  \/ /\ Close
     /\ Observe("close", [threw |-> CloseThrows])

SpecRpc == Init /\ [][NextRpc]_vars

(* ------------------------------------------------------------------ *)
(* Specification of the event subscription manager                     *)
(* ------------------------------------------------------------------ *)

\* The remote event names a server broadcasts.
RemoteEventNames ==
  {GetRemoteEventName(<<"w">>, <<m>>, o) : m \in {"c", "d"}, o \in ServiceOptions}

NextEvents ==
  \/ \E r \in Registrations :
       /\ RegisterEventListener(r.localEventName, r.cb, r.serviceOptions)
       /\ Observe("turn", <<>>)
  \/ \E i \in 1..MaxSubscriptions :
       /\ Dispose(i)
       /\ Observe("turn", <<>>)
  \/ \E i \in 1..MaxSubscriptions :
       /\ RunUnsubscribeReaction(i)
       /\ Observe("turn", <<>>)
  \/ \E id \in 1..MaxRequestId :
       /\ TimerFires(id)
       /\ Observe("turn", <<>>)
  \/ \E id \in 1..MaxRequestId, e \in {Undefined, "E1"} :
       /\ HandleRpcMessage(id, e, "r1")
       /\ Observe("turn", <<>>)
  \/ \E n \in RemoteEventNames :
       /\ HandleEventMessage(n)
       /\ Observe("eventMessage",
                  [name |-> n, delivered |-> CallbacksOf(eventEmitter, n)])
  \/ /\ Close
     /\ Observe("turn", <<>>)

SpecEvents == Init /\ [][NextEvents]_vars

(* ------------------------------------------------------------------ *)
(* Specification of the stream/object emitter registry                 *)
(* ------------------------------------------------------------------ *)

NextEmitters ==
  \/ \E id \in EmitterIds :
       /\ ConsumeStream(id)
       /\ Observe("consume", <<>>)
  \/ \E id \in EmitterIds :
       /\ ConsumeEventEmitter(id, <<"data">>, <<>>)
       /\ Observe("consume", <<>>)
  \/ \E n \in 1..MaxEmitters, connected \in BOOLEAN :
       /\ WaitForConnectSettles(n, connected)
       /\ Observe("turn", <<>>)
  \/ \E n \in 1..MaxEmitters, ok \in BOOLEAN :
       /\ XhrRequestSettles(n, ok)
       /\ Observe("turn", <<>>)
  \/ \E n \in 1..MaxEmitters :
       /\ OnError(n)
       /\ Observe("turn", <<>>)
  \/ \E id \in EmitterIds, type \in StreamEventTypes :
       HandleStreamMessage(id, type)
  \/ /\ Close
     /\ Observe("close", <<>>)

SpecEmitters == Init /\ [][NextEmitters]_vars

(* ------------------------------------------------------------------ *)
(* Specification of the bus around close(): every operation that can   *)
(* hand something to the transport                                     *)
(* ------------------------------------------------------------------ *)

\* The operations share nothing but the socket, the id counter and the
\* transport: a run around close() uses one kind of operation, any number of
\* times within the bounds.
StartedKinds ==
  (IF \E c \in DOMAIN promises : promises[c].serviceName /= "serviceFramework"
   THEN {"callServiceFrameworkMethod"} ELSE {})
  \cup (IF subscriptions /= <<>> THEN {"registerEventListener"} ELSE {})
  \cup (IF emitterObjs /= <<>> THEN {"consumeStream"} ELSE {})
  \cup (IF channelSubs /= <<>> THEN {"subscribeToChannel"} ELSE {})
  \cup (IF methodCalls /= <<>> THEN {"callMethod"} ELSE {})

OnlyKind(kind) == StartedKinds \subseteq {kind}

NextClose ==
  \/ \E c \in CallInputs :
       /\ OnlyKind("callServiceFrameworkMethod")
       /\ CallServiceFrameworkMethod(c.serviceName, c.timeout)
       /\ Observe("turn", <<>>)
  \/ \E id \in 1..MaxRequestId :
       /\ TimerFires(id)
       /\ Observe("turn", <<>>)
  \/ \E id \in 1..MaxRequestId, e \in {Undefined, "E1"} :
       /\ HandleRpcMessage(id, e, "r1")
       /\ Observe("turn", <<>>)
  \/ \E r \in Registrations :
       /\ OnlyKind("registerEventListener")
       /\ RegisterEventListener(r.localEventName, r.cb, r.serviceOptions)
       /\ Observe("turn", <<>>)
  \/ \E i \in 1..MaxSubscriptions :
       /\ Dispose(i)
       /\ Observe("turn", <<>>)
  \/ \E i \in 1..MaxSubscriptions :
       /\ RunUnsubscribeReaction(i)
       /\ Observe("turn", <<>>)
  \/ \E id \in EmitterIds :
       /\ OnlyKind("consumeStream")
       /\ ConsumeStream(id)
       /\ Observe("turn", <<>>)
  \/ \E n \in 1..MaxEmitters, connected \in BOOLEAN :
       /\ WaitForConnectSettles(n, connected)
       /\ Observe("turn", <<>>)
  \/ \E n \in 1..MaxEmitters, ok \in BOOLEAN :
       /\ XhrRequestSettles(n, ok)
       /\ Observe("turn", <<>>)
  \/ \E uri \in MethodUris :
       /\ OnlyKind("callMethod")
       /\ CallMethod(uri)
       /\ Observe("callMethod", [n |-> Len(methodCalls) + 1])
  \/ \E n \in 1..MaxMethodCalls, outcome \in XhrOutcomes :
       /\ MethodCallSettles(n, outcome)
       /\ Observe("methodSettles", [n |-> n, outcome |-> outcome])
  \/ \E r \in ChannelRegistrations :
       /\ OnlyKind("subscribeToChannel")
       /\ SubscribeToChannel(r.channel, r.handler)
       /\ Observe("turn", <<>>)
  \/ \E n \in 1..MaxChannelSubscriptions, connected \in BOOLEAN :
       /\ ChannelWaitForConnectSettles(n, connected)
       /\ Observe("turn", <<>>)
  \/ \E n \in 1..MaxChannelSubscriptions, ok \in BOOLEAN :
       /\ ChannelXhrRequestSettles(n, ok)
       /\ Observe("turn", <<>>)
  \/ /\ Close
     /\ Observe("close", [threw |-> CloseThrows])

SpecClose == Init /\ [][NextClose]_vars

(* ------------------------------------------------------------------ *)
(* Specification of the generic channel bus                            *)
(* ------------------------------------------------------------------ *)

NextChannels ==
  \/ \E r \in ChannelRegistrations :
       /\ SubscribeToChannel(r.channel, r.handler)
       /\ Observe("turn", <<>>)
  \/ \E n \in 1..MaxChannelSubscriptions, connected \in BOOLEAN :
       /\ ChannelWaitForConnectSettles(n, connected)
       /\ Observe("turn", <<>>)
  \/ \E n \in 1..MaxChannelSubscriptions, ok \in BOOLEAN :
       /\ ChannelXhrRequestSettles(n, ok)
       /\ Observe("turn", <<>>)
  \/ \E n \in 1..MaxChannelSubscriptions :
       /\ DisposeChannelSubscription(n)
       /\ Observe("disposeChannel", [threw |-> ~BusHasRemoveListener])
  \/ \E channel \in Channels :
       /\ HandleChannelMessage(channel)
       /\ Observe("channelMessage",
                  [channel |-> channel, delivered |-> HandlersOf(eventbus, channel)])
  \/ /\ Close
     /\ Observe("close", [threw |-> CloseThrows])

SpecChannels == Init /\ [][NextChannels]_vars

(* ------------------------------------------------------------------ *)
(* Specification of RemoteFile                                         *)
(* ------------------------------------------------------------------ *)

\* The most requests a RemoteFile can have in flight.
FileTaskSlots == 1..(MaxFileListeners + 2 * MaxFileOperations + MaxFileReads)

NextRemoteFile ==
  \/ /\ AddListener
     /\ Observe("turn", <<>>)
  \/ \E n \in 1..MaxFileListeners :
       /\ DisposeListener(n)
       /\ Observe("dispose", [again |-> remoteFile.disposed[n]])
  \/ \E callsHandle \in BOOLEAN :
       /\ OnWillThrowWatchError(callsHandle)
       /\ Observe("onWillThrowWatchError", <<>>)
  \/ \E i \in FileTaskSlots, ok \in BOOLEAN :
       /\ WatchFileSettles(i, ok)
       /\ Observe("turn", <<>>)
  \/ \E i \in FileTaskSlots, ok \in BOOLEAN :
       /\ UnwatchFileSettles(i, ok)
       /\ Observe("turn", <<>>)
  \/ \E request \in FileOperations :
       /\ StartFileOperation(request)
       /\ Observe("turn", <<>>)
  \/ \E text \in FileTexts :
       /\ Write(text)
       /\ Observe("turn", <<>>)
  \/ \E type \in {"change", "rename", "delete"} :
       /\ NativeEvent(type)
       /\ Observe("turn", <<>>)
  \/ \E i \in FileTaskSlots, ok \in BOOLEAN :
       /\ ServiceRequestSettles(i, ok)
       /\ Observe("turn", <<>>)

SpecRemoteFile == Init /\ [][NextRemoteFile]_vars

(* ------------------------------------------------------------------ *)
(* Specification of the listeners of a RemoteFile: registrations,      *)
(* disposals and the watch requests they cause                         *)
(* ------------------------------------------------------------------ *)

NextFileListeners ==
  \/ /\ AddListener
     /\ Observe("turn", <<>>)
  \/ \E n \in 1..MaxFileListeners :
       /\ DisposeListener(n)
       /\ Observe("dispose", [again |-> remoteFile.disposed[n]])
  \/ \E callsHandle \in BOOLEAN :
       /\ OnWillThrowWatchError(callsHandle)
       /\ Observe("onWillThrowWatchError", <<>>)
  \/ \E i \in FileTaskSlots, ok \in BOOLEAN :
       /\ WatchFileSettles(i, ok)
       /\ Observe("turn", <<>>)
  \/ \E i \in FileTaskSlots, ok \in BOOLEAN :
       /\ UnwatchFileSettles(i, ok)
       /\ Observe("turn", <<>>)

SpecFileListeners == Init /\ [][NextFileListeners]_vars

(* ------------------------------------------------------------------ *)
(* Specification of the contents of a RemoteFile: change events,       *)
(* reads and writes                                                    *)
(* ------------------------------------------------------------------ *)

NextFileContents ==
  \/ /\ AddListener
     /\ Observe("turn", <<>>)
  \/ \E i \in FileTaskSlots, ok \in BOOLEAN :
       /\ WatchFileSettles(i, ok)
       /\ Observe("turn", <<>>)
  \/ \E i \in FileTaskSlots, ok \in BOOLEAN :
       /\ UnwatchFileSettles(i, ok)
       /\ Observe("turn", <<>>)
  \/ /\ Read
     /\ Observe("turn", <<>>)
  \/ \E text \in FileTexts :
       /\ Write(text)
       /\ Observe("turn", <<>>)
  \/ \E text \in FileTexts :
       /\ ExternalWrite(text)
       /\ Observe("turn", <<>>)
  \/ /\ NativeEvent("change")
     /\ Observe("turn", <<>>)
  \/ \E i \in FileTaskSlots, ok \in BOOLEAN :
       /\ ServiceRequestSettles(i, ok)
       /\ Observe("settles", [task |-> remoteFile.tasks[i], ok |-> ok,
                              read |-> fileContents])

SpecFileContents == Init /\ [][NextFileContents]_vars

(* ------------------------------------------------------------------ *)
(* Specification of the FileTreeController                             *)
(* ------------------------------------------------------------------ *)

\* What a command of the FileTreeController found when it started.
TreeBefore(showIfHidden) ==
  [showIfHidden |-> showIfHidden,
   wasVisible |-> fileTree.isVisible,
   wasPending |-> fileTree.revealActiveFilePending,
   file |-> fileTree.activeFile]

NextFileTree ==
  \/ \E showIfHidden \in BOOLEAN :
       /\ RevealActiveFile(showIfHidden)
       /\ Observe("revealActiveFile", TreeBefore(showIfHidden))
  \/ /\ ToggleVisibility
     /\ Observe("toggleVisibility", TreeBefore(TRUE))
  \/ /\ ToggleTreeFocus
     /\ Observe("turn", <<>>)
  \/ \E file \in ActiveFiles :
       /\ ChangeActiveFile(file)
       /\ Observe("turn", <<>>)

SpecFileTree == InitFileTree /\ [][NextFileTree]_vars

(* ------------------------------------------------------------------ *)
(* Properties of the RPC call engine, checked under SpecRpc            *)
(* ------------------------------------------------------------------ *)

Settled(p) == p.state /= "pending"

\* The call was made on a null socket: socket.send threw.
SendThrew(p) == p.state = "rejected" /\ p.value.kind = "TypeError"

\* The outcome the response (error, result) gives a call.
ResponseOutcome(p, error, result) ==
  IF error /= Undefined /\ error /= ""
  THEN p.state = "rejected" /\ p.value = [kind |-> "remote", error |-> error]
  ELSE p.state = "resolved" /\ p.value = result

\* C1: with any number of calls pending and responses in any order, a call's
\* promise settles once: a settled promise never changes again, a response
\* settles exactly the pending call whose id it carries, rejecting it with the
\* response's error when there is one and resolving it with the response's
\* result otherwise, and no response settles a call with another id.
C1_SettlesOnceFromOwnResponse ==
  [][\A c \in DOMAIN promises :
       /\ Settled(promises[c]) => promises'[c] = promises[c]
       /\ (last'.op = "rpcMessage" /\ ~Settled(promises[c]))
            => IF last'.requestId = c
               THEN ResponseOutcome(promises'[c], last'.error, last'.result)
               ELSE promises'[c] = promises[c]]_vars

\* Two calls were pending together and the response of the second arrived
\* first; the first was then rejected by its own response.
C1_Witness ==
  /\ 2 \in DOMAIN promises
  /\ 1 \in DOMAIN promises
  /\ promises[2].state = "resolved"
  /\ promises[2].value = "r2"
  /\ promises[1].state = "rejected"
  /\ promises[1].value = [kind |-> "remote", error |-> "E1"]
  /\ last.op = "rpcMessage"
  /\ last.requestId = 1
  /\ last.error = "E1"

\* C2: a timer that fires on a call still pending rejects it with the timeout
\* error naming its service, method and timeout; a response for an id whose
\* call already timed out changes nothing; a timer that fires after the
\* response settled the call settles nothing and leaves the pending table as
\* it is.
C2_TimeoutAndLateResponse ==
  [][/\ (last'.op = "timer" /\ last'.requestId \in DOMAIN promises)
          => LET c == last'.requestId IN
             IF Settled(promises[c])
             THEN promises' = promises /\ rpcEmitter' = rpcEmitter
             ELSE /\ promises'[c].state = "rejected"
                  /\ promises'[c].value =
                       [kind |-> "timeout", timeout |-> promises[c].timeout,
                        serviceName |-> promises[c].serviceName,
                        methodName |-> promises[c].methodName]
     /\ (/\ last'.op = "rpcMessage"
         /\ last'.requestId \in DOMAIN promises
         /\ promises[last'.requestId].state = "rejected"
         /\ promises[last'.requestId].value.kind = "timeout")
          => UNCHANGED <<rpcVars, evVars, emVars, rfVars, ftVars>>]_vars

\* A response was handled for a call that had timed out before.
C2_Witness ==
  /\ last.op = "rpcMessage"
  /\ last.requestId \in DOMAIN promises
  /\ promises[last.requestId].state = "rejected"
  /\ promises[last.requestId].value =
       [kind |-> "timeout", timeout |-> 5000,
        serviceName |-> "svcB", methodName |-> "m"]

\* C3: the ids handed out, by callServiceFrameworkMethod and by the generator
\* of ClientComponent together, are 1, 2, 3, ... in order: the i-th allocation
\* gets id i, so no id is handed out twice.
C3_IdsStartAtOneAndIncrease ==
  /\ \A i \in DOMAIN allocated : allocated[i].id = i
  /\ rpcRequestId = Len(allocated) + 1

\* Both allocators have handed out ids, the generator first.
C3_Witness ==
  /\ Len(allocated) >= 2
  /\ allocated[1].by = "clientComponent"
  /\ allocated[2].by = "call"

\* C4: there is at most one pending entry per request id; a call sent on an open
\* socket has exactly one entry while it is pending and none once it has
\* settled; and an id's entry is removed at most once, by the response or by the
\* timer.
C4_OnePendingEntryPerId ==
  \A c \in DOMAIN promises :
    LET entries == {i \in DOMAIN rpcEmitter : rpcEmitter[i].key = NumberToString(c)} IN
    /\ Cardinality(entries) <= 1
    /\ \A i \in entries : rpcEmitter[i].call = c
    /\ Settled(promises[c]) <=> entries = {}
    /\ Len(removed[c]) <= 1
    /\ (Settled(promises[c]) /\ ~SendThrew(promises[c])) => Len(removed[c]) = 1

\* One call's entry was removed by its timer, another's by its response.
C4_Witness ==
  /\ 1 \in DOMAIN promises
  /\ 2 \in DOMAIN promises
  /\ removed[1] = <<"timer">>
  /\ removed[2] = <<"response">>
  /\ rpcEmitter = <<>>

\* C5: a response whose request id has no pending entry changes nothing: no
\* promise, no pending entry, no timer, no subscription.
C5_UnknownResponseIsNoOp ==
  [][(/\ last'.op = "rpcMessage"
      /\ \A i \in DOMAIN rpcEmitter :
           rpcEmitter[i].key /= NumberToString(last'.requestId))
       => UNCHANGED <<rpcVars, evVars, emVars, rfVars, ftVars>>]_vars

\* A response was handled for an id that was never issued while another call
\* was pending.
C5_Witness ==
  /\ last.op = "rpcMessage"
  /\ last.requestId >= rpcRequestId
  /\ rpcEmitter /= <<>>

(* ------------------------------------------------------------------ *)
(* Properties of the event subscriptions, checked under SpecEvents     *)
(* ------------------------------------------------------------------ *)

\* The requests of a method handed to the transport under a request id.
RequestsOf(methodName, requestId) ==
  {k \in DOMAIN sent : sent[k].methodName = methodName /\ sent[k].requestId = requestId}

\* The arguments a subscription's subscribeEvent and unsubscribeEvent carry:
\* the connection id and the two halves of 'S/M'.
ExpectedArgs(sub, args) ==
  /\ Len(args) = 3
  /\ args[1] = SocketId
  /\ sub.localEventName = args[2] \o <<"/">> \o args[3]

\* How often callback cb occurs in a sequence of callbacks.
Occurrences(cbs, cb) == Cardinality({k \in DOMAIN cbs : cbs[k] = cb})

\* The registrations of (name, cb) that were not disposed.
LiveRegistrations(name, cb) ==
  {i \in DOMAIN subscriptions :
     /\ subscriptions[i].remoteEventName = name
     /\ subscriptions[i].cb = cb
     /\ ~subscriptions[i].disposed}

\* C6: a turn that hands an unsubscribeEvent request to the transport does so
\* for a disposed subscription whose subscribeEvent call has already settled;
\* the turn that disposes a subscription hands nothing to the transport.
C6_UnsubscribeAfterSubscribeSettled ==
  [][/\ (/\ Len(sent') > Len(sent)
         /\ sent'[Len(sent')].methodName = "unsubscribeEvent")
          => \E i \in DOMAIN subscriptions :
               /\ subscriptions[i].disposed
               /\ subscriptions[i].unsubscribeId = 0
               /\ subscriptions'[i].unsubscribeId = sent'[Len(sent')].requestId
               /\ Settled(promises[subscriptions[i].subscribeId])
     /\ (\E i \in DOMAIN subscriptions :
           ~subscriptions[i].disposed /\ subscriptions'[i].disposed)
          => sent' = sent]_vars

\* A subscription disposed while its subscribe call was in flight has had its
\* unsubscribeEvent request sent.
C6_Witness ==
  \E i \in DOMAIN subscriptions :
    /\ subscriptions[i].disposedWhile = "pending"
    /\ subscriptions[i].unsubscribeId /= 0
    /\ RequestsOf("unsubscribeEvent", subscriptions[i].unsubscribeId) /= {}

\* C7: every subscription has sent exactly one subscribeEvent request with
\* (connection id, S, M), and once it is disposed and its subscribe call has
\* settled (resolved, rejected by the server or timed out) and the reactions
\* have run, exactly one unsubscribeEvent request with the same arguments has
\* been sent for it.
C7_OneSubscribeOneUnsubscribe ==
  \A i \in DOMAIN subscriptions :
    LET sub == subscriptions[i] IN
    ~sub.threw =>
      /\ Cardinality(RequestsOf("subscribeEvent", sub.subscribeId)) = 1
      /\ \A k \in RequestsOf("subscribeEvent", sub.subscribeId) :
           ExpectedArgs(sub, sent[k].methodArgs)
      /\ (/\ sub.disposed
          /\ socket = "open"
          /\ Settled(promises[sub.subscribeId])
          /\ ~ReactionRunnable(i))
           => /\ sub.unsubscribeId /= 0
              /\ Cardinality(RequestsOf("unsubscribeEvent", sub.unsubscribeId)) = 1
              /\ \A k \in RequestsOf("unsubscribeEvent", sub.unsubscribeId) :
                   ExpectedArgs(sub, sent[k].methodArgs)

\* C8: in every state in which a subscription is disposed, whatever became of
\* its subscribe and unsubscribe calls and of the socket, its callback is on
\* the emitter only for the registrations of that callback that are still
\* live, and a broadcast of its event name called the callback once per live
\* registration: never on behalf of the disposed subscription.
C8_DisposeRemovesCallbackAtOnce ==
  \A i \in DOMAIN subscriptions :
    LET sub == subscriptions[i]
        live == Cardinality(LiveRegistrations(sub.remoteEventName, sub.cb))
    IN
    sub.disposed =>
      /\ Occurrences(CallbacksOf(eventEmitter, sub.remoteEventName), sub.cb) = live
      /\ (last.op = "eventMessage" /\ last.name = sub.remoteEventName)
           => Occurrences(last.delivered, sub.cb) = live

\* A subscription was disposed while its subscribe call was in flight, the
\* call was then rejected, and a later broadcast of its event reached nobody.
C8_Witness ==
  \E i \in DOMAIN subscriptions :
    /\ subscriptions[i].disposed
    /\ subscriptions[i].disposedWhile = "pending"
    /\ promises[subscriptions[i].subscribeId].state = "rejected"
    /\ last.op = "eventMessage"
    /\ last.name = subscriptions[i].remoteEventName
    /\ last.delivered = <<>>

\* C9: when two subscriptions hold different callbacks for the same remote
\* event name, each callback registered for that name once, a broadcast of the
\* name calls each callback whose subscription is live exactly once, and the
\* callback of a live subscription stays on the emitter when the other one is
\* disposed.
C9_BothCallbacksReceiveEachBroadcast ==
  \A i, j \in DOMAIN subscriptions :
    LET a == subscriptions[i]
        b == subscriptions[j]
        once(s) == Cardinality({k \in DOMAIN subscriptions :
                      /\ subscriptions[k].remoteEventName = s.remoteEventName
                      /\ subscriptions[k].cb = s.cb}) = 1
    IN
    (/\ a.remoteEventName = b.remoteEventName
     /\ a.cb /= b.cb
     /\ once(a)
     /\ once(b)
     /\ ~b.disposed)
      => /\ Occurrences(CallbacksOf(eventEmitter, b.remoteEventName), b.cb) = 1
         /\ (last.op = "eventMessage" /\ last.name = b.remoteEventName)
              => /\ Occurrences(last.delivered, b.cb) = 1
                 /\ Occurrences(last.delivered, a.cb) = (IF a.disposed THEN 0 ELSE 1)

\* Two callbacks were registered for one event name, the first subscription was
\* disposed, and a later broadcast reached the second callback only.
C9_Witness ==
  /\ Len(subscriptions) >= 2
  /\ subscriptions[1].remoteEventName = subscriptions[2].remoteEventName
  /\ subscriptions[1].cb = "cb1"
  /\ subscriptions[2].cb = "cb2"
  /\ subscriptions[1].disposed
  /\ ~subscriptions[2].disposed
  /\ last.op = "eventMessage"
  /\ last.name = subscriptions[2].remoteEventName
  /\ last.delivered = <<"cb2">>

(* ------------------------------------------------------------------ *)
(* Properties of the emitter registry, checked under SpecEmitters      *)
(* ------------------------------------------------------------------ *)

\* C10: for every emitter id, 0 included, the stream events that arrived while
\* an emitter was registered for the id are exactly the events emitted on that
\* emitter, in the order of their arrival.
C10_RegisteredEmitterGetsEveryEvent ==
  \A n \in DOMAIN emitterObjs : emitterObjs[n].emitted = emitterObjs[n].arrived

\* The positions in the arrivals of emitter object o that carry one of its
\* dispose event names.
TerminalArrivals(o) ==
  {k \in DOMAIN o.arrived : o.arrived[k].type \in o.disposeNames}

\* C11: for every emitter obtained from consumeStream or consumeEventEmitter,
\* whatever its id, once an event with one of its dispose event names ('end'
\* for a stream) has arrived for its id, that event and every event before it
\* were emitted on the emitter, the registry no longer resolves the id to the
\* emitter, and that first dispose event is the last event the emitter was
\* registered for: nothing after it reaches the emitter.
C11_FirstDisposeEventDeregisters ==
  \A n \in DOMAIN emitterObjs :
    LET o == emitterObjs[n] IN
    TerminalArrivals(o) /= {} =>
      /\ o.emitted = o.arrived
      /\ TerminalArrivals(o) = {Len(o.arrived)}
      /\ ~(o.id \in DOMAIN eventEmitters /\ eventEmitters[o.id] = n)

\* C12: a stream message invokes at most one destination: when it is emitted
\* on the emitter registered for its id it is not also emitted on the generic
\* channel bus.
C12_OneDestinationPerMessage ==
  last.op = "streamMessage" => Cardinality(last.dests) <= 1

(* ------------------------------------------------------------------ *)
(* Properties of close, checked under SpecRpc                          *)
(* ------------------------------------------------------------------ *)

\* The requests handed to socket.send that carry requestId.
SentWithId(requestId) == {k \in DOMAIN sent : sent[k].requestId = requestId}

\* C13: a call made on a closed connection is rejected at once with a
\* connection-closed error, hands nothing to the transport and leaves no
\* pending entry and no timer.
C13_CallOnClosedFailsAsClosed ==
  (last.op = "call" /\ socket = "null") =>
    LET c == last.requestId IN
    /\ promises[c].state = "rejected"
    /\ promises[c].value.kind = "connectionClosed"
    /\ SentWithId(c) = {}
    /\ ListenersOf(rpcEmitter, NumberToString(c)) = <<>>
    /\ c \notin timers

\* C14: a call that is pending while the connection is closed, which is a call
\* that was pending when close() ran, settles only by being rejected with a
\* connection-closed error: never by its timer and never by a response.
C14_PendingAtCloseFailsAsClosed ==
  [][\A c \in DOMAIN promises :
       (socket = "null" /\ ~Settled(promises[c]) /\ Settled(promises'[c]))
         => /\ promises'[c].state = "rejected"
            /\ promises'[c].value.kind = "connectionClosed"]_vars

\* C15: close() on a closed connection does not throw.
C15_CloseIsIdempotent ==
  last.op = "close" => ~last.threw

\* C20: the turn in which a call fails, by its timer or by a response that
\* carries an error, changes the promise of no other call, takes no other
\* call's pending entry off the emitter, clears no other call's timer, and
\* leaves the event subscriptions, the emitter registry, the id counter, the
\* socket and the requests handed to the transport as they were; and a call
\* made on the open socket in any later state is set up pending with its own
\* request, entry and timer.
C20_FailureStaysWithItsCall ==
  [][/\ (\/ last'.op = "timer"
          \/ (last'.op = "rpcMessage" /\ Truthy(last'.error)))
          => LET c == last'.requestId IN
             /\ \A d \in DOMAIN promises \ {c} : promises'[d] = promises[d]
             /\ rpcEmitter' = SelectSeq(rpcEmitter, LAMBDA l : l.call /= c)
             /\ timers' \ {c} = timers \ {c}
             /\ subscriptions' = subscriptions
             /\ eventEmitter' = eventEmitter
             /\ eventEmitters' = eventEmitters
             /\ emitterObjs' = emitterObjs
             /\ rpcRequestId' = rpcRequestId
             /\ socket' = socket
             /\ sent' = sent
     /\ (last'.op = "call" /\ socket = "open")
          => LET c == last'.requestId IN
             /\ promises'[c].state = "pending"
             /\ Cardinality({k \in DOMAIN sent' : sent'[k].requestId = c}) = 1
             /\ Len(ListenersOf(rpcEmitter', NumberToString(c))) = 1
             /\ c \in timers']_vars

\* The timer of the first call fired while the second call was pending: the
\* first is rejected with its timeout error, the second is still pending with
\* its entry on the emitter.
C20_Witness ==
  /\ socket = "open"
  /\ 1 \in DOMAIN promises
  /\ 2 \in DOMAIN promises
  /\ promises[1].state = "rejected"
  /\ promises[1].value.kind = "timeout"
  /\ promises[2].state = "pending"
  /\ removed[1] = <<"timer">>
  /\ Len(ListenersOf(rpcEmitter, NumberToString(2))) = 1
  /\ last.op = "timer"
  /\ last.requestId = 1

(* ------------------------------------------------------------------ *)
(* Properties of the message handler                                   *)
(* ------------------------------------------------------------------ *)

\* C17: the handler run on a message without requestId on an RPC channel,
\* without event on the event channel or without channel does not throw, and
\* settles no promise and takes no pending entry off the emitter.
C17_MalformedMessageIsDropped ==
  [][last'.op = "malformed"
       => /\ ~last'.threw
          /\ promises' = promises
          /\ rpcEmitter' = rpcEmitter
          /\ timers' = timers]_vars

\* C18: a stream message whose emitter id is not in the registry, whatever the
\* id, reaches no destination at all, adds no registry entry and changes
\* nothing else.
C18_UnknownEmitterIsDropped ==
  [][(last'.op = "streamMessage" /\ last'.id \notin DOMAIN eventEmitters)
       => /\ last'.dests = {}
          /\ eventEmitters' = eventEmitters
          /\ emitterObjs' = emitterObjs
          /\ xhrRequests' = xhrRequests
          /\ UNCHANGED <<rpcVars, evVars, chVars, rfVars, ftVars>>]_vars

(* ------------------------------------------------------------------ *)
(* Properties of the closed bus, checked under SpecClose               *)
(* ------------------------------------------------------------------ *)

\* C16: once the socket is null it stays null, and no turn that starts with a
\* null socket, whether a new operation or the continuation of one that was
\* in flight when close() ran, hands anything to socket.send or to
\* socket.xhrRequest.
C16_ClosedIsTerminal ==
  [][socket = "null"
       => /\ socket' = "null"
          /\ sent' = sent
          /\ xhrRequests' = xhrRequests]_vars

\* A subscription was disposed while its subscribe call was pending, close()
\* ran, the call was then resolved and the unsubscribe reaction ran on the
\* null socket and threw; a registerEventListener call made after close()
\* threw as well; only the one subscribe request ever reached the transport.
C16_Witness ==
  /\ socket = "null"
  /\ Len(sent) = 1
  /\ \E i \in DOMAIN subscriptions :
       /\ subscriptions[i].disposedWhile = "pending"
       /\ subscriptions[i].reaction = "threw"
  /\ \E i \in DOMAIN subscriptions : subscriptions[i].threw

(* ------------------------------------------------------------------ *)
(* Properties of the generic channel bus, checked under SpecChannels,  *)
(* and of callMethod, checked under SpecClose                          *)
(* ------------------------------------------------------------------ *)

\* The subscribeToChannel calls of (channel, handler) that attached the
\* handler, and those of them whose Disposable was disposed.
SubscribedTo(channel, handler) ==
  {n \in DOMAIN channelSubs :
     /\ channelSubs[n].channel = channel
     /\ channelSubs[n].handler = handler
     /\ channelSubs[n].pc = "subscribed"}

DisposedOf(channel, handler) ==
  {n \in SubscribedTo(channel, handler) : channelSubs[n].disposed}

\* C21: a message on a generic channel that carries no emitter id calls, for
\* every handler none of whose subscriptions was disposed, that handler once
\* per subscribeToChannel call that attached it for the message's channel, and
\* it calls no handler that was attached only for another channel.
C21_ChannelMessageReachesItsHandlers ==
  last.op = "channelMessage" =>
    \A h \in Handlers :
      /\ DisposedOf(last.channel, h) = {}
           => Occurrences(last.delivered, h)
                = Cardinality(SubscribedTo(last.channel, h))
      /\ SubscribedTo(last.channel, h) = {}
           => Occurrences(last.delivered, h) = 0

\* h2 was subscribed to chA and h1 to chB; a message on chA called h2 only.
C21_Witness ==
  /\ last.op = "channelMessage"
  /\ last.channel = "chA"
  /\ last.delivered = <<"h2">>
  /\ SubscribedTo("chB", "h1") /= {}
  /\ SubscribedTo("chA", "h2") /= {}

\* C22: disposing the Disposable of subscribeToChannel(channel, handler) does
\* not throw and takes that handler off the generic bus: the bus holds the
\* handler for the channel once per subscription of it that is not disposed.
C22_DisposeRemovesChannelHandler ==
  /\ last.op = "disposeChannel" => ~last.threw
  /\ \A n \in DOMAIN channelSubs :
       LET c == channelSubs[n] IN
       c.disposed =>
         Occurrences(HandlersOf(eventbus, c.channel), c.handler)
           = Cardinality(SubscribedTo(c.channel, c.handler)
                           \ DisposedOf(c.channel, c.handler))

\* C24: callMethod on a null socket hands nothing to socket.xhrRequest and its
\* promise is resolved with undefined; on an open socket it hands over one
\* request and its promise settles as that request does, resolved with the
\* transport's value or rejected with the transport's error; a settled
\* promise never changes.
C24_CallMethodFollowsTransport ==
  [][/\ (last'.op = "callMethod" /\ socket = "null")
          => /\ methodCalls'[last'.n].pc = "resolved"
             /\ methodCalls'[last'.n].value = Undefined
             /\ xhrRequests' = xhrRequests
     /\ (last'.op = "callMethod" /\ socket = "open")
          => /\ methodCalls'[last'.n].pc = "xhrRequest"
             /\ Len(xhrRequests') = Len(xhrRequests) + 1
             /\ xhrRequests'[Len(xhrRequests')].uri = methodCalls'[last'.n].uri
     /\ last'.op = "methodSettles"
          => /\ methodCalls'[last'.n].pc
                  = (IF last'.outcome.ok THEN "resolved" ELSE "rejected")
             /\ methodCalls'[last'.n].value = last'.outcome.value
             /\ xhrRequests' = xhrRequests
     /\ \A n \in DOMAIN methodCalls :
          methodCalls[n].pc /= "xhrRequest" => methodCalls'[n] = methodCalls[n]]_vars

\* A callMethod on the open socket was rejected with the transport's error,
\* and a callMethod made after close() resolved with undefined; one request
\* reached the transport.
C24_Witness ==
  /\ socket = "null"
  /\ Len(methodCalls) = 2
  /\ methodCalls[1].pc = "rejected"
  /\ methodCalls[1].value = "xhrError"
  /\ methodCalls[2].pc = "resolved"
  /\ methodCalls[2].value = Undefined
  /\ Len(xhrRequests) = 1

(* ------------------------------------------------------------------ *)
(* More properties of the event subscription manager (SpecEvents)      *)
(* ------------------------------------------------------------------ *)

\* C23: a broadcast of a remote event name calls the callback of every
\* subscription for that name that registerEventListener returned and that
\* was not disposed, whatever the state of its subscribeEvent call: pending,
\* resolved, rejected by the server or timed out.
C23_CallbackAttachedBeforeSubscribeCompletes ==
  \A i \in DOMAIN subscriptions :
    LET sub == subscriptions[i] IN
    (/\ ~sub.threw
     /\ ~sub.disposed
     /\ last.op = "eventMessage"
     /\ last.name = sub.remoteEventName)
      => Occurrences(last.delivered, sub.cb)
           = Cardinality(LiveRegistrations(sub.remoteEventName, sub.cb))

\* A broadcast reached the callback of a subscription whose subscribeEvent
\* call was still pending, and one whose subscribeEvent call had timed out.
C23_Witness ==
  /\ last.op = "eventMessage"
  /\ Len(subscriptions) = 2
  /\ subscriptions[1].remoteEventName = last.name
  /\ subscriptions[2].remoteEventName = last.name
  /\ subscriptions[1].cb = "cb1"
  /\ subscriptions[2].cb = "cb2"
  /\ ~subscriptions[1].disposed
  /\ ~subscriptions[2].disposed
  /\ promises[subscriptions[1].subscribeId].state = "rejected"
  /\ promises[subscriptions[1].subscribeId].value.kind = "timeout"
  /\ promises[subscriptions[2].subscribeId].state = "pending"
  /\ last.delivered = <<"cb1", "cb2">>

(* ------------------------------------------------------------------ *)
(* More properties of the emitter registry (SpecEmitters)              *)
(* ------------------------------------------------------------------ *)

\* No dispose event has arrived for any emitter consumed under id.
NoTerminalArrivalFor(id) ==
  \A m \in DOMAIN emitterObjs :
    emitterObjs[m].id = id => TerminalArrivals(emitterObjs[m]) = {}

\* C25: the turn that hands the subscribe request of a consumeEventEmitter
\* call to the transport finds the call's id in the registry, resolving to an
\* emitter with all its dispose-event listeners attached, unless a dispose
\* event for the id arrived before the request; and the emitter is handed to
\* the caller only by the turn in which that request completes.
C25_RegisteredBeforeSubscribeRequest ==
  [][\A n \in DOMAIN emitterObjs :
       LET o == emitterObjs[n] IN
       /\ (o.pc = "waitForConnect" /\ emitterObjs'[n].pc = "xhrRequest")
            => /\ Len(xhrRequests') = Len(xhrRequests) + 1
               /\ NoTerminalArrivalFor(o.id)
                    => /\ o.id \in DOMAIN eventEmitters
                       /\ emitterObjs[eventEmitters[o.id]].once
                            = emitterObjs[eventEmitters[o.id]].disposeNames
       /\ (o.pc /= "resolved" /\ emitterObjs'[n].pc = "resolved")
            => o.pc = "xhrRequest"]_vars

\* The first stream event for id 1 was emitted on its emitter while the
\* subscribe request was in flight, before the emitter was handed over.
C25_Witness ==
  /\ last.op = "streamMessage"
  /\ last.id = 1
  /\ "emitter" \in last.dests
  /\ 1 \in DOMAIN eventEmitters
  /\ emitterObjs[eventEmitters[1]].pc = "xhrRequest"
  /\ Len(emitterObjs[eventEmitters[1]].emitted) = 1
  /\ Len(emitterObjs[eventEmitters[1]].arrived) = 1

\* C26: every registry entry belongs to an emitter whose subscribe request is
\* in flight or succeeded and whose dispose event has not been dispatched: a
\* consumeEventEmitter call that was rejected leaves no entry.
C26_NoEntryAfterFailedSubscribe ==
  \A id \in DOMAIN eventEmitters :
    LET o == emitterObjs[eventEmitters[id]] IN
    /\ o.pc \in {"waitForConnect", "xhrRequest", "resolved"}
    /\ o.once = o.disposeNames

\* C27: the handler run on a stream message never throws, whatever the event
\* type and whatever listeners the emitter has.
C27_StreamDispatchNeverThrows ==
  last.op = "streamMessage" => ~last.threw

(* ------------------------------------------------------------------ *)
(* Properties of RemoteFile, checked under SpecRemoteFile              *)
(* ------------------------------------------------------------------ *)

\* No request of the RemoteFile is in flight.
FileQuiet == remoteFile.tasks = <<>>

\* C28: when only listeners were added and disposed, no request is in flight
\* and no listener is left, then no watcher is held and every watch that was
\* established has been released by an unwatchFile request.
C28_NoListenerNoWatch ==
  (FileQuiet /\ remoteFile.operations = 0 /\ remoteFile.subscriptionCount = 0)
    => /\ remoteFile.watchSubscription = 0
       /\ remoteFile.established <= remoteFile.released

\* C29: when only listeners were added and disposed, no request is in flight,
\* no watchFile request failed and a listener is left, then a watcher is held.
C29_ListenerHasWatch ==
  (/\ FileQuiet
   /\ remoteFile.operations = 0
   /\ remoteFile.watchFileFailures = 0
   /\ remoteFile.subscriptionCount > 0)
    => remoteFile.watchSubscription /= 0

\* C30: every turn that requests watchFile leaves the RemoteFile with at least
\* one listener, and while no listener was ever added no watcher is held: no
\* operation asks for a watch, or keeps one, on behalf of nobody.
C30_WatchOnlyForListeners ==
  /\ [](remoteFile.listenersAdded = 0 => remoteFile.watchSubscription = 0)
  /\ [][remoteFile'.watchFileCalls > remoteFile.watchFileCalls
          => remoteFile'.subscriptionCount > 0]_vars

\* The watchFile requests in flight.
WatchFileInFlight ==
  {i \in DOMAIN remoteFile.tasks : remoteFile.tasks[i].await = "watchFile"}

\* At most one watchFile request is in flight, and a turn that requests
\* watchFile leaves no watcher held.
OneWatchFileAtATime ==
  /\ [](Cardinality(WatchFileInFlight) <= 1)
  /\ [][remoteFile'.watchFileCalls > remoteFile.watchFileCalls
          => remoteFile'.watchSubscription = 0]_vars

\* The native handlers are on every established watcher exactly once.
HandlersAttachedOnce ==
  /\ Len(remoteFile.attached) = remoteFile.established
  /\ \A w \in DOMAIN remoteFile.attached : remoteFile.attached[w] = 1

\* C31: at most one watchFile request is in flight and none is sent while a
\* watcher is held; the native handlers are attached exactly once to every
\* established watcher; and at most one unwatchFile request is sent for each
\* established watcher.
C31_OneRequestPerWatch ==
  /\ OneWatchFileAtATime
  /\ [](HandlersAttachedOnce)
  /\ [](\A w \in DOMAIN remoteFile.unwatched : remoteFile.unwatched[w] <= 1)

(* ------------------------------------------------------------------ *)
(* Properties of the listeners of a RemoteFile, checked under          *)
(* SpecFileListeners                                                   *)
(* ------------------------------------------------------------------ *)

\* The Disposables of onDidChange / onDidRename / onDidDelete not disposed yet.
LiveListeners ==
  {n \in DOMAIN remoteFile.disposed : ~remoteFile.disposed[n]}

\* C32: subscriptionCount is always the number of registered listeners not
\* yet disposed, also after a Disposable was disposed again, and is never
\* negative; registering a 'will-throw-watch-error' callback leaves it as it is.
C32_CountIsLiveListeners ==
  /\ [](/\ remoteFile.subscriptionCount = Cardinality(LiveListeners)
        /\ remoteFile.subscriptionCount >= 0)
  /\ [][last'.op = "onWillThrowWatchError"
          => remoteFile'.subscriptionCount = remoteFile.subscriptionCount]_vars

\* A Disposable was disposed again while another listener is registered, and
\* a 'will-throw-watch-error' callback is registered.
C32_Witness ==
  /\ last.op = "dispose"
  /\ last.again
  /\ remoteFile.subscriptionCount > 0
  /\ Len(remoteFile.watchErrorListeners) > 0

(* ------------------------------------------------------------------ *)
(* Properties of the handlers of a RemoteFile, checked under           *)
(* SpecRemoteFile                                                      *)
(* ------------------------------------------------------------------ *)

\* The events the latest turn emitted.
EmittedNow == {remoteFile.emitted[k] : k \in DOMAIN remoteFile.emitted}

\* C33: the turn that ends the handling of a failed read after a native
\* change event has emitted 'will-throw-watch-error' and not 'did-change',
\* holds no watcher, and raised an ENOENT error exactly when no listener
\* called handle.
C33_WatchErrorAnnounced ==
  remoteFile.settled = "watchError"
    => /\ "will-throw-watch-error" \in EmittedNow
       /\ "did-change" \notin EmittedNow
       /\ remoteFile.watchSubscription = 0
       /\ remoteFile.raised =
            (IF WatchErrorHandled(remoteFile) THEN "none" ELSE "ENOENT")

\* C34: 'did-delete' was emitted at most once, and the turn that ends the
\* handling of a delete leaves no cached contents and no watcher.
C34_DeleteHandledOnce ==
  /\ remoteFile.didDeleteCount <= 1
  /\ remoteFile.settled = "delete"
       => /\ remoteFile.cachedContents = "null"
          /\ remoteFile.watchSubscription = 0

(* ------------------------------------------------------------------ *)
(* Properties of the contents of a RemoteFile, checked under           *)
(* SpecFileContents                                                    *)
(* ------------------------------------------------------------------ *)

\* The latest turn completed the read of a change handler.
ChangeReadCompleted ==
  /\ last.op = "settles"
  /\ last.ok
  /\ last.task.await = "readFile"
  /\ last.task.next = "change"

\* C35: the turn that completes the read of a change handler emits
\* 'did-change' exactly when the contents read differ from the contents that
\* were cached when the handler started; so it emits nothing when the handler
\* started with the text of a write and the file still holds that text.
C35_ChangeEmittedIffContentsDiffer ==
  ChangeReadCompleted
    => /\ ("did-change" \in EmittedNow) <=> (last.task.oldContents /= last.read)
       /\ (last.task.oldContents = remoteFile.written
             /\ last.read = remoteFile.written)
            => EmittedNow = {}

\* A change handler that started after write(text) finds the text unchanged
\* and emits nothing, while another read is still in flight.
C35_Witness ==
  /\ ChangeReadCompleted
  /\ remoteFile.written /= "null"
  /\ last.task.oldContents = remoteFile.written
  /\ last.read = remoteFile.written
  /\ EmittedNow = {}
  /\ \E i \in DOMAIN remoteFile.tasks : remoteFile.tasks[i].await = "readFile"

(* ------------------------------------------------------------------ *)
(* Properties of the FileTreeController, checked under SpecFileTree    *)
(* ------------------------------------------------------------------ *)

\* C36: revealActiveFile(false) on a hidden tree with an active file reveals
\* nothing, leaves the tree hidden and notes a pending reveal; a
\* toggleVisibility that shows the tree reveals the active file exactly when
\* a reveal was pending and leaves none pending, so the next hide/show cycle
\* reveals nothing; revealActiveFile on a visible tree reveals the active file
\* at once and leaves the pending flag as it was; revealActiveFile(true) leaves
\* the tree visible and reveals the active file.
C36_PendingRevealRunsOnceOnShow ==
  /\ (/\ last.op = "revealActiveFile"
      /\ ~last.showIfHidden /\ ~last.wasVisible /\ last.file /= 0)
       => /\ fileTree.revealed = 0
          /\ ~fileTree.isVisible
          /\ fileTree.revealActiveFilePending
  /\ (last.op = "toggleVisibility" /\ ~last.wasVisible)
       => /\ fileTree.isVisible /\ fileTree.panelVisible
          /\ ~fileTree.revealActiveFilePending
          /\ fileTree.revealed = (IF last.wasPending THEN last.file ELSE 0)
  /\ (last.op = "toggleVisibility" /\ last.wasVisible)
       => /\ ~fileTree.isVisible
          /\ fileTree.revealed = 0
          /\ fileTree.revealActiveFilePending = last.wasPending
  /\ (last.op = "revealActiveFile" /\ last.wasVisible /\ last.file /= 0)
       => /\ fileTree.revealed = last.file
          /\ fileTree.revealActiveFilePending = last.wasPending
  /\ (last.op = "revealActiveFile" /\ last.showIfHidden)
       => /\ fileTree.isVisible /\ fileTree.panelVisible
          /\ fileTree.revealed = last.file

\* A toggleVisibility shows the tree and performs the reveal that was pending.
C36_Witness ==
  /\ last.op = "toggleVisibility"
  /\ ~last.wasVisible
  /\ last.wasPending
  /\ last.file /= 0
  /\ fileTree.revealed = last.file
  /\ ~fileTree.revealActiveFilePending

====
